---- MODULE Spec2Model ----
(***************************************************************************)
(* The two RAG notebooks of LLM-APP (rag_arbitrary_sources.ipynb and       *)
(* rag_mlflow_documents.ipynb) as a state machine.  A notebook session     *)
(* builds Haystack pipelines (add_component / connect), runs them stage by *)
(* stage against a document store, and evaluates the retriever over a      *)
(* table of questions.  Texts are sequences of word units; the unit 0 is a *)
(* blank unit (extra whitespace) that the cleaner removes.  The behaviour  *)
(* of each Haystack component is modelled at the place where the notebook  *)
(* constructs and configures it.                                           *)
(***************************************************************************)
EXTENDS Integers, Sequences, FiniteSets, TLC

(* ---------------------------------------------------------------- bounds *)
\* longest source text, in word units
MaxWords == 258
\* calls of create_vector_database per session
MaxIngest == 2
\* runs of the example question cell per session
MaxQuery == 1
\* evaluation calls per session
MaxEval == 1
MaxMlflowEval == 2
\* longest text given to the splitter on its own
MaxSplitWords == 60
\* runs of the top-K cell in a session
MaxTopK == 1
\* the most documents of a drawn store
MaxStored == 12
\* the first words of the drawn documents and questions are below this
MaxWord == 5
\* the longest list of retrieved sources of a drawn results table
MaxRetrieved == 4

(* ----------------------------------------------------- program constants *)
\* DocumentSplitter(split_by="word", split_length=256, split_overlap=16)
split_length == 256
split_overlap == 16
\* create_vector_database(urls=urls, split_length=253)
split_length_253 == 253
\* evaluate_split_length(1000)
split_length_1000 == 1000
split_length_2000 == 2000
\* QdrantEmbeddingRetriever(document_store) / InMemoryEmbeddingRetriever(document_store):
\* no top_k is given, so the retrievers keep their default
top_k == 10
\* the k of the metrics of model_type="retriever"
default_k == 3

None == "None"

(* ------------------------------------------------------------ the inputs *)
\* fetcher urls and pdf_converter sources of indexing_pipeline.run
urls == <<"u1", "u2">>
pdf_sources == <<"p1">>
Sources == {"u1", "u2", "p1"}

ShortText == <<1, 0, 2>>
LongText == [i \in 1..MaxWords |-> IF i = 2 THEN 0 ELSE (i % 5) + 1]
PdfText == <<3, 4, 0>>
\* what the source locations may hold: the first web page a short or a long
\* text, the second the short one (so two pages may hold the same text), the
\* PDF file a text of its own
Contents ==
    {c \in [Sources -> {ShortText, LongText, PdfText}] :
        /\ c["u1"] \in {ShortText, LongText}
        /\ c["u2"] = ShortText
        /\ c["p1"] = PdfText}

\* eval_data: the questions and the expected sources of each
eval_data ==
    << [question |-> <<1>>, source |-> {"u2"}],
       [question |-> <<3>>, source |-> {"p1"}] >>
Questions == {eval_data[i].question : i \in 1..Len(eval_data)}

\* the example question: it is also the first question of eval_data
example_question == <<1>>

\* eval_df of rag_mlflow_documents: the questions of eval_data again
eval_df == << [questions |-> <<1>>], [questions |-> <<3>>] >>

(* ------------------------------------------------------------- documents *)
\* haystack.dataclasses.Document: the id is a hash of the content and the
\* metadata the document is constructed with (modelled as the pair itself)
MakeId(content, meta) == <<content, meta>>

Meta(url, file_path, split_id) ==
    [url |-> url, file_path |-> file_path, split_id |-> split_id]

MakeDocument(content, meta) ==
    [id |-> MakeId(content, meta), content |-> content, meta |-> meta,
     embedding |-> <<>>, score |-> <<>>, written_by |-> 0]

\* a document some other program left in the persisted index: it has neither
\* a url nor a file_path in its metadata
ForeignDocument ==
    [MakeDocument(<<3>>, Meta(None, None, 0)) EXCEPT !.embedding = <<3>>]

Ids(docs) == {docs[i].id : i \in 1..Len(docs)}

RECURSIVE Concat(_)
Concat(lists) ==
    IF lists = <<>> THEN <<>> ELSE Head(lists) \o Concat(Tail(lists))

\* the elements of a sequence that have no equal element before them
RECURSIVE DropDuplicateIds(_, _)
DropDuplicateIds(docs, seen) ==
    IF docs = <<>> THEN <<>>
    ELSE IF Head(docs).id \in seen THEN DropDuplicateIds(Tail(docs), seen)
    ELSE <<Head(docs)>> \o DropDuplicateIds(Tail(docs), seen \cup {Head(docs).id})

(* --------------------------------------------------- ingestion components *)
\* variant: any failing url fails the whole fetch
FetchAllOrNothing(us, failing, content) ==
    IF \E i \in 1..Len(us) : us[i] \in failing
    THEN [raised |-> TRUE, streams |-> <<>>]
    ELSE [raised |-> FALSE,
          streams |-> [i \in 1..Len(us) |-> [url |-> us[i], data |-> content[us[i]]]]]

\* LinkContentFetcher().run(urls): one stream per url fetched; with several
\* urls a failing url is logged and left out, with a single url the error is
\* raised (raise_on_failure is left at its default)
Fetch(us, failing, content) ==
    IF Len(us) = 1 /\ us[1] \in failing
    THEN [raised |-> TRUE, streams |-> <<>>]
    ELSE [raised |-> FALSE,
          streams |-> [i \in 1..Len(SelectSeq(us, LAMBDA u : u \notin failing)) |->
                         LET u == SelectSeq(us, LAMBDA v : v \notin failing)[i]
                         IN [url |-> u, data |-> content[u]]]]

\* HTMLToDocument().run(sources): one document per stream, its metadata the
\* stream's (the url)
HtmlToDocuments(streams) ==
    [i \in 1..Len(streams) |->
        MakeDocument(streams[i].data, Meta(streams[i].url, None, 0))]

\* PyPDFToDocument().run(sources): one document per readable file, with the
\* file_path in its metadata; an unreadable file is logged and left out
PdfToDocuments(paths, failing, content) ==
    [i \in 1..Len(SelectSeq(paths, LAMBDA p : p \notin failing)) |->
        LET p == SelectSeq(paths, LAMBDA q : q \notin failing)[i]
        IN MakeDocument(content[p], Meta(None, p, 0))]

\* variant: the joiner passes on the list of the sender that ran first
JoinFirstSender(lists) ==
    IF lists = <<>> THEN <<>> ELSE DropDuplicateIds(Head(lists), {})

\* DocumentJoiner().run(documents): the lists of its senders concatenated,
\* one document per id
JoinDocuments(lists) == DropDuplicateIds(Concat(lists), {})

\* DocumentCleaner(): extra whitespace and empty lines are removed
CleanText(text) == SelectSeq(text, LAMBDA w : w # 0)

CleanDocuments(docs) ==
    [i \in 1..Len(docs) |-> MakeDocument(CleanText(docs[i].content), docs[i].meta)]
\* variant: only full windows, the units after the last full window are lost
WindowedFullOnly(len, n, step) ==
    IF len = 0 THEN <<>>
    ELSE IF len < n THEN << <<1, len>> >>
    ELSE [k \in 1..((len - n) \div step + 1) |-> <<(k - 1) * step + 1, (k - 1) * step + n>>]

\* variant: every full window takes one unit more than n
WindowedOneMore(len, n, step) ==
    IF len = 0 THEN <<>>
    ELSE IF len <= n THEN << <<1, len>> >>
    ELSE LET K == (len - n - 1) \div step
             c == len - (K * step + n + 1)
             full == [k \in 1..(K + 1) |-> <<(k - 1) * step + 1, (k - 1) * step + n + 1>>]
         IN IF c > 0 THEN Append(full, <<(K + 1) * step + 1, len>>) ELSE full

\* more_itertools.windowed(units, n, step), as DocumentSplitter uses it: the
\* first and last position of every window over len units.  Full windows
\* start every step units; units left over after the last full window make
\* a final, shorter window (its padding is dropped by the splitter).
Windowed(len, n, step) ==
    IF len = 0 THEN <<>>
    ELSE IF len < n THEN << <<1, len>> >>
    ELSE LET K == (len - n) \div step
             c == len - (K * step + n)
             full == [k \in 1..(K + 1) |-> <<(k - 1) * step + 1, (k - 1) * step + n>>]
         IN IF c > 0 THEN Append(full, <<(K + 1) * step + 1, len>>) ELSE full

\* DocumentSplitter(split_by="word", split_length=n, split_overlap=ov) on one
\* document: one chunk per window, each a new document that carries the
\* source's metadata and its split_id
SplitDocument(doc, n, ov) ==
    LET w == Windowed(Len(doc.content), n, n - ov)
    IN [i \in 1..Len(w) |->
           MakeDocument(SubSeq(doc.content, w[i][1], w[i][2]),
                        [doc.meta EXCEPT !.split_id = i - 1])]

SplitDocuments(docs, n, ov) ==
    Concat([i \in 1..Len(docs) |-> SplitDocument(docs[i], n, ov)])

\* the sentence-transformers model: a deterministic function of the text
\* (one dimension stands for the 384)
Embed(text) == IF text = <<>> THEN <<0>> ELSE <<Head(text)>>

\* SentenceTransformersDocumentEmbedder.run(documents): the embedding is
\* stored on each document; its id stays
EmbedDocuments(docs) ==
    [i \in 1..Len(docs) |-> [docs[i] EXCEPT !.embedding = Embed(docs[i].content)]]

\* variant: policy=DuplicatePolicy.OVERWRITE, a document whose id the store
\* holds replaces the stored one
RECURSIVE WriteDocumentsOverwrite(_, _, _)
WriteDocumentsOverwrite(stored, docs, run_no) ==
    IF docs = <<>> THEN stored
    ELSE LET d == [Head(docs) EXCEPT !.written_by = run_no]
         IN IF d.id \in Ids(stored)
            THEN WriteDocumentsOverwrite(
                     [i \in 1..Len(stored) |-> IF stored[i].id = d.id THEN d ELSE stored[i]],
                     Tail(docs), run_no)
            ELSE WriteDocumentsOverwrite(Append(stored, d), Tail(docs), run_no)

\* variant: no duplicate check, every document of the batch is appended
WriteDocumentsNoSkip(stored, docs, run_no) ==
    stored \o [i \in 1..Len(docs) |-> [docs[i] EXCEPT !.written_by = run_no]]

\* document_store.write_documents(documents, policy=DuplicatePolicy.SKIP): a
\* document whose id the store (or the batch so far) holds is skipped
RECURSIVE WriteDocuments(_, _, _)
WriteDocuments(stored, docs, run_no) ==
    IF docs = <<>> THEN stored
    ELSE IF Head(docs).id \in Ids(stored)
         THEN WriteDocuments(stored, Tail(docs), run_no)
         ELSE WriteDocuments(Append(stored, [Head(docs) EXCEPT !.written_by = run_no]),
                             Tail(docs), run_no)

(* ------------------------------------------------------ query components *)
Abs(x) == IF x < 0 THEN 0 - x ELSE x

\* the store's similarity metric (larger is nearer)
Similarity(qv, dv) == 0 - Abs(qv[1] - dv[1])

\* the position of the stored document nearest to qv among the positions in
\* cand; of equally near documents the one stored first
Nearest(stored, qv, cand) ==
    CHOOSE i \in cand :
        \A j \in cand :
            \/ Similarity(qv, stored[i].embedding) > Similarity(qv, stored[j].embedding)
            \/ /\ Similarity(qv, stored[i].embedding) = Similarity(qv, stored[j].embedding)
               /\ i <= j

\* the documents returned are copies that carry their score
RECURSIVE TopK(_, _, _, _)
TopK(stored, qv, cand, k) ==
    IF k = 0 \/ cand = {} THEN <<>>
    ELSE LET i == Nearest(stored, qv, cand)
         IN <<[stored[i] EXCEPT !.score = <<Similarity(qv, stored[i].embedding)>>]>>
            \o TopK(stored, qv, cand \ {i}, k - 1)

\* variant: the first top_k documents of the store, in stored order
RetrieveUnranked(stored, qv) ==
    [i \in 1..(IF Len(stored) < top_k THEN Len(stored) ELSE top_k) |->
        [stored[i] EXCEPT !.score = <<Similarity(qv, stored[i].embedding)>>]]

\* QdrantEmbeddingRetriever(document_store).run(query_embedding): the top_k
\* stored documents nearest to the query embedding, nearest first
Retrieve(stored, qv) == TopK(stored, qv, 1..Len(stored), top_k)

\* variant: a template whose instruction is rendered only inside the loop
\* over the documents
BuildPromptInLoop(question, documents) ==
    [instruction |-> IF documents = <<>> THEN "" ELSE "reply with 'no_answer'",
     query |-> question,
     documents |-> [i \in 1..Len(documents) |-> documents[i].content]]

\* PromptBuilder(template=prompt_template).run(question, documents): the
\* template with the question and the content of each document, in order
BuildPrompt(question, documents) ==
    [instruction |-> "reply with 'no_answer'",
     query |-> question,
     documents |-> [i \in 1..Len(documents) |-> documents[i].content]]

\* what the generative model may reply
Replies == {"22.11", "no_answer"}

\* variant: the answers are built from the replies alone
BuildAnswersWithoutMeta(query, replies, meta, documents) ==
    [i \in 1..Len(replies) |->
        [data |-> replies[i], query |-> query, documents |-> documents, meta |-> None]]

\* AnswerBuilder().run(query, replies, meta, documents): one answer per
\* reply, with the query and all the documents it was given
BuildAnswers(query, replies, meta, documents) ==
    [i \in 1..Len(replies) |->
        [data |-> replies[i], query |-> query, documents |-> documents,
         meta |-> IF i <= Len(meta) THEN meta[i] ELSE None]]

(* ------------------------------------------------------------ evaluation *)
\* variant: a document without a source field yields a placeholder
extract_source_fallback(doc) ==
    IF doc.meta.url # None THEN [raised |-> None, value |-> doc.meta.url]
    ELSE IF doc.meta.file_path # None
         THEN [raised |-> None, value |-> doc.meta.file_path]
         ELSE [raised |-> None, value |-> "unknown"]

\* variant: the file_path is looked up before the url
extract_source_file_first(doc) ==
    IF doc.meta.file_path # None THEN [raised |-> None, value |-> doc.meta.file_path]
    ELSE IF doc.meta.url # None
         THEN [raised |-> None, value |-> doc.meta.url]
         ELSE [raised |-> "KeyError", value |-> None]

\* extract_source of evaluate_embedding (rag_arbitrary_sources)
extract_source(doc) ==
    IF doc.meta.url # None THEN [raised |-> None, value |-> doc.meta.url]
    ELSE IF doc.meta.file_path # None
         THEN [raised |-> None, value |-> doc.meta.file_path]
         ELSE [raised |-> "KeyError", value |-> None]

\* extract_source of evaluate_split_length (rag_mlflow_documents)
extract_source_url(doc) ==
    IF doc.meta.url # None THEN [raised |-> None, value |-> doc.meta.url]
    ELSE [raised |-> "KeyError", value |-> None]

\* variant: the contents of the documents, last retrieved first
qa_reversed(answer) ==
    [result |-> answer.data,
     source_documents |->
         [i \in 1..Len(answer.documents) |->
             answer.documents[Len(answer.documents) + 1 - i].content]]

\* what qa makes of the answer of rag_pipeline.run: out["result"] =
\* response.data, out["source_documents"] = [doc.content for doc in
\* response.documents]
qa(answer) ==
    [result |-> answer.data,
     source_documents |->
         [i \in 1..Len(answer.documents) |-> answer.documents[i].content]]

\* what the judge model may grade an answer: a grade from 1 to 5, or no
\* grade when the call of the judge fails
Grades == {<<>>, <<1>>, <<5>>}

\* the results table of the question-answering evaluation: per question the
\* prediction, its context, the latency of the call and the judge's grade
QaTable(data, predictions, grades) ==
    [i \in 1..Len(data) |->
        [questions |-> data[i].questions,
         result |-> predictions[i].result,
         source_documents |-> predictions[i].source_documents,
         latency |-> predictions[i].latency,
         relevance |-> grades[i]]]

(* --------------------------------------------------- the ranking metrics *)
\* A score is the fraction <<numerator, denominator>>.

Min(a, b) == IF a < b THEN a ELSE b

\* prediction[:k]
FirstK(list, k) == SubSeq(list, 1, Min(k, Len(list)))

\* set(list)
SetOf(list) == {list[i] : i \in 1..Len(list)}

\* for doc_id in retrieved: if doc_id in ground_truth: count += 1
\* (an entry that is repeated is counted each time)
RECURSIVE RelevantCount(_, _)
RelevantCount(retrieved, ground_truth) ==
    IF retrieved = <<>> THEN 0
    ELSE (IF Head(retrieved) \in ground_truth THEN 1 ELSE 0)
         + RelevantCount(Tail(retrieved), ground_truth)

\* variant: the relevant entries over k, however many entries there are
precision_over_k(k, retrieved, ground_truth, when_empty) ==
    <<RelevantCount(FirstK(retrieved, k), ground_truth), k>>

\* mlflow.metrics.precision_at_k(k) for one row.  What it scores a row with
\* nothing retrieved depends on the release of the library: when_empty is
\* that score, 0 or 1.
precision_at_k(k, retrieved, ground_truth, when_empty) ==
    LET top == FirstK(retrieved, k)
    IN IF Len(top) > 0
       THEN <<RelevantCount(top, ground_truth), Len(top)>>
       ELSE <<when_empty, 1>>

\* variant: every repeated entry counts as a source found
recall_with_repeats(k, retrieved, ground_truth) ==
    IF Cardinality(ground_truth) > 0
    THEN <<RelevantCount(FirstK(retrieved, k), ground_truth), Cardinality(ground_truth)>>
    ELSE IF FirstK(retrieved, k) = <<>> THEN <<1, 1>> ELSE <<0, 1>>

\* mlflow.metrics.recall_at_k(k) for one row
recall_at_k(k, retrieved, ground_truth) ==
    LET top == SetOf(FirstK(retrieved, k))
    IN IF Cardinality(ground_truth) > 0
       THEN <<Cardinality(ground_truth \cap top), Cardinality(ground_truth)>>
       ELSE IF top = {} THEN <<1, 1>> ELSE <<0, 1>>

\* 1 / log2(i + 1) for the ranks i = 1, 2, 3, in units of 1 / 100000
Discount == <<100000, 63093, 50000>>

\* the discounted gain of the entries from rank i on: an entry gains 1 when
\* it is a ground-truth source
RECURSIVE DCG(_, _, _)
DCG(retrieved, ground_truth, i) ==
    IF i > Len(retrieved) THEN 0
    ELSE (IF retrieved[i] \in ground_truth THEN Discount[i] ELSE 0)
         + DCG(retrieved, ground_truth, i + 1)

\* the gain of the best order: n relevant documents at the first n ranks
RECURSIVE IdealDCG(_)
IdealDCG(n) == IF n = 0 THEN 0 ELSE Discount[n] + IdealDCG(n - 1)

\* mlflow.metrics.ndcg_at_k(k) for one row.  A repeated entry is scored as
\* a document of its own (relevant when the entry is), so the relevant
\* documents are the relevant entries and the ground-truth sources that
\* were not retrieved; sklearn's ndcg_score ranks them over the entries' ranks.
ndcg_at_k(k, retrieved, ground_truth) ==
    LET top == FirstK(retrieved, k)
        relevant == RelevantCount(top, ground_truth)
                    + Cardinality(ground_truth \ SetOf(top))
    IN IF retrieved = <<>> /\ ground_truth = {} THEN <<1, 1>>
       ELSE IF retrieved = <<>> \/ ground_truth = {} THEN <<0, 1>>
       ELSE <<DCG(top, ground_truth, 1), IdealDCG(Min(Len(top), relevant))>>

\* the columns the metrics add to the results table
Column(metric, k) == <<metric, k>>

Ks == {1, 2, 3}

\* variant: no ranking metric
MetricColumnsUnranked(ks) == {"precision_at_k", "recall_at_k"} \X ks

MetricColumns(ks) == {"precision_at_k", "recall_at_k", "ndcg_at_k"} \X ks

\* the scores of one row of the table for the metrics "at k", k in ks
Scores(ks, retrieved, ground_truth, when_empty) ==
    [c \in MetricColumns(ks) |->
        IF c[1] = "precision_at_k" THEN precision_at_k(c[2], retrieved, ground_truth, when_empty)
        ELSE IF c[1] = "recall_at_k" THEN recall_at_k(c[2], retrieved, ground_truth)
        ELSE ndcg_at_k(c[2], retrieved, ground_truth)]

\* the results table of mlflow.evaluate(model_type="retriever"): the data,
\* the predictions and the default metrics, which are those at default_k
ResultsTable(data, predictions, when_empty) ==
    [i \in 1..Len(data) |->
        [question |-> data[i].question, source |-> data[i].source,
         outputs |-> predictions[i],
         scores |-> Scores({default_k}, predictions[i], data[i].source, when_empty)]]

\* a row of the results table keeps the columns of the data and gets the
\* metrics' columns; a column of the same name is replaced
WithScores(data_row, scores) ==
    [data_row EXCEPT !.scores =
        [c \in DOMAIN scores \cup DOMAIN data_row.scores |->
            IF c \in DOMAIN scores THEN scores[c] ELSE data_row.scores[c]]]

(* ------------------------------------------------------- pipeline graphs *)
Socket(name, type, required, variadic) ==
    [name |-> name, type |-> type, required |-> required, variadic |-> variadic]

\* the input sockets each component class declares (the parameters of its
\* run method; one with a default value is not required)
InputSockets(class) ==
    CASE class = "LinkContentFetcher" ->
           {Socket("urls", "List[str]", TRUE, FALSE)}
      [] class \in {"HTMLToDocument", "PyPDFToDocument"} ->
           {Socket("sources", "List[source]", TRUE, FALSE),
            Socket("meta", "Dict", FALSE, FALSE)}
      [] class = "DocumentJoiner" ->
           {Socket("documents", "List[Document]", TRUE, TRUE),
            Socket("top_k", "int", FALSE, FALSE)}
      [] class \in {"DocumentCleaner", "DocumentSplitter",
                    "SentenceTransformersDocumentEmbedder"} ->
           {Socket("documents", "List[Document]", TRUE, FALSE)}
      [] class = "DocumentWriter" ->
           {Socket("documents", "List[Document]", TRUE, FALSE),
            Socket("policy", "DuplicatePolicy", FALSE, FALSE)}
      [] class = "SentenceTransformersTextEmbedder" ->
           {Socket("text", "str", TRUE, FALSE)}
      [] class = "EmbeddingRetriever" ->
           {Socket("query_embedding", "List[float]", TRUE, FALSE),
            Socket("filters", "Dict", FALSE, FALSE),
            Socket("top_k", "int", FALSE, FALSE)}
      [] class = "PromptBuilder" ->
           {Socket("question", "Any", FALSE, FALSE),
            Socket("documents", "Any", FALSE, FALSE),
            Socket("template_variables", "Dict", FALSE, FALSE)}
      [] class = "OpenAIGenerator" ->
           {Socket("prompt", "str", TRUE, FALSE),
            Socket("generation_kwargs", "Dict", FALSE, FALSE)}
      [] class = "AnswerBuilder" ->
           {Socket("query", "str", TRUE, FALSE),
            Socket("replies", "List[str]", TRUE, FALSE),
            Socket("meta", "List[Dict]", FALSE, FALSE),
            Socket("documents", "List[Document]", FALSE, FALSE),
            Socket("pattern", "str", FALSE, FALSE)}

\* the output sockets each component class declares
OutputSockets(class) ==
    CASE class = "LinkContentFetcher" -> {[name |-> "streams", type |-> "List[ByteStream]"]}
      [] class = "DocumentWriter" -> {[name |-> "documents_written", type |-> "int"]}
      [] class = "SentenceTransformersTextEmbedder" ->
           {[name |-> "embedding", type |-> "List[float]"]}
      [] class = "PromptBuilder" -> {[name |-> "prompt", type |-> "str"]}
      [] class = "OpenAIGenerator" ->
           {[name |-> "replies", type |-> "List[str]"],
            [name |-> "meta", type |-> "List[Dict]"]}
      [] class = "AnswerBuilder" -> {[name |-> "answers", type |-> "List[GeneratedAnswer]"]}
      [] OTHER -> {[name |-> "documents", type |-> "List[Document]"]}

\* whether a value of the sender's type may be sent to the receiver's socket
TypesCompatible(sender_type, receiver_type) ==
    \/ receiver_type = "Any"
    \/ sender_type = receiver_type
    \/ sender_type = "List[ByteStream]" /\ receiver_type = "List[source]"

Add(name, class) == [call |-> "add_component", name |-> name, class |-> class]
Conn(sender, sender_socket, receiver, receiver_socket) ==
    [call |-> "connect", sender |-> sender, sender_socket |-> sender_socket,
     receiver |-> receiver, receiver_socket |-> receiver_socket]

\* variant: the cleaner's output is also wired back into the joiner
indexing_arbitrary_cyclic ==
    << Add("fetcher", "LinkContentFetcher"),
       Add("html_converter", "HTMLToDocument"),
       Add("pdf_converter", "PyPDFToDocument"),
       Add("document_joiner", "DocumentJoiner"),
       Add("cleaner", "DocumentCleaner"),
       Add("splitter", "DocumentSplitter"),
       Add("document_embedder", "SentenceTransformersDocumentEmbedder"),
       Add("writer", "DocumentWriter"),
       Conn("fetcher", "streams", "html_converter", "sources"),
       Conn("html_converter", None, "document_joiner", None),
       Conn("pdf_converter", None, "document_joiner", None),
       Conn("document_joiner", "documents", "cleaner", None),
       Conn("cleaner", None, "document_joiner", None),
       Conn("cleaner", None, "splitter", None),
       Conn("splitter", None, "document_embedder", None),
       Conn("document_embedder", None, "writer", "documents") >>

\* create_vector_database of rag_arbitrary_sources: the calls that build
\* indexing_pipeline (a socket the call does not name is None)
indexing_arbitrary ==
    << Add("fetcher", "LinkContentFetcher"),
       Add("html_converter", "HTMLToDocument"),
       Add("pdf_converter", "PyPDFToDocument"),
       Add("document_joiner", "DocumentJoiner"),
       Add("cleaner", "DocumentCleaner"),
       Add("splitter", "DocumentSplitter"),
       Add("document_embedder", "SentenceTransformersDocumentEmbedder"),
       Add("writer", "DocumentWriter"),
       Conn("fetcher", "streams", "html_converter", "sources"),
       Conn("html_converter", None, "document_joiner", None),
       Conn("pdf_converter", None, "document_joiner", None),
       Conn("document_joiner", "documents", "cleaner", None),
       Conn("cleaner", None, "splitter", None),
       Conn("splitter", None, "document_embedder", None),
       Conn("document_embedder", None, "writer", "documents") >>

\* create_vector_database of rag_mlflow_documents
indexing_mlflow ==
    << Add("fetcher", "LinkContentFetcher"),
       Add("html_converter", "HTMLToDocument"),
       Add("cleaner", "DocumentCleaner"),
       Add("splitter", "DocumentSplitter"),
       Add("document_embedder", "SentenceTransformersDocumentEmbedder"),
       Add("writer", "DocumentWriter"),
       Conn("fetcher", "streams", "html_converter", "sources"),
       Conn("html_converter", "documents", "cleaner", None),
       Conn("cleaner", None, "splitter", None),
       Conn("splitter", None, "document_embedder", None),
       Conn("document_embedder", None, "writer", "documents") >>

\* variant: the retriever is not connected to the answer builder
rag_arbitrary_unattached ==
    << Add("text_embedder", "SentenceTransformersTextEmbedder"),
       Add("retriever", "EmbeddingRetriever"),
       Add("prompt_builder", "PromptBuilder"),
       Add("llm", "OpenAIGenerator"),
       Add("answer_builder", "AnswerBuilder"),
       Conn("text_embedder", "embedding", "retriever", "query_embedding"),
       Conn("retriever", None, "prompt_builder", "documents"),
       Conn("prompt_builder", None, "llm", None),
       Conn("llm", "replies", "answer_builder", "replies"),
       Conn("llm", "meta", "answer_builder", "meta") >>

\* create_rag_pipeline of rag_arbitrary_sources
rag_arbitrary ==
    << Add("text_embedder", "SentenceTransformersTextEmbedder"),
       Add("retriever", "EmbeddingRetriever"),
       Add("prompt_builder", "PromptBuilder"),
       Add("llm", "OpenAIGenerator"),
       Add("answer_builder", "AnswerBuilder"),
       Conn("text_embedder", "embedding", "retriever", "query_embedding"),
       Conn("retriever", None, "prompt_builder", "documents"),
       Conn("prompt_builder", None, "llm", None),
       Conn("llm", "replies", "answer_builder", "replies"),
       Conn("llm", "meta", "answer_builder", "meta"),
       Conn("retriever", None, "answer_builder", "documents") >>

\* create_rag_pipeline of rag_mlflow_documents
rag_mlflow ==
    << Add("text_embedder", "SentenceTransformersTextEmbedder"),
       Add("retriever", "EmbeddingRetriever"),
       Add("prompt_builder", "PromptBuilder"),
       Add("llm", "OpenAIGenerator"),
       Add("answer_builder", "AnswerBuilder"),
       Conn("text_embedder", "embedding", "retriever", "query_embedding"),
       Conn("retriever", None, "prompt_builder", "documents"),
       Conn("prompt_builder", None, "llm", None),
       Conn("llm", "replies", "answer_builder", "replies"),
       Conn("llm", "meta", "answer_builder", "meta"),
       Conn("retriever", None, "answer_builder", "documents") >>

Script(notebook, pipeline) ==
    CASE notebook = "arbitrary" /\ pipeline = "indexing" -> indexing_arbitrary
      [] notebook = "arbitrary" /\ pipeline = "rag" -> rag_arbitrary
      [] notebook = "mlflow" /\ pipeline = "indexing" -> indexing_mlflow
      [] notebook = "mlflow" /\ pipeline = "rag" -> rag_mlflow

\* Pipeline(): no component, no connection
EmptyPipeline == [components |-> <<>>, connections |-> <<>>]

Names(g) == {g.components[i].name : i \in 1..Len(g.components)}
ClassOf(g, name) ==
    (CHOOSE c \in {g.components[i] : i \in 1..Len(g.components)} : c.name = name).class
Edges(g) == {g.connections[i] : i \in 1..Len(g.connections)}

\* Pipeline.add_component(name, instance)
AddComponent(g, name, class) ==
    [g EXCEPT !.components = Append(@, [name |-> name, class |-> class])]

\* the socket pairs a connect call may mean: the named sockets, or, for a
\* socket the call leaves out, every socket of the component; of those the
\* pairs whose types are compatible
Candidates(g, c) ==
    {p \in OutputSockets(ClassOf(g, c.sender)) \X InputSockets(ClassOf(g, c.receiver)) :
        /\ c.sender_socket \in {None, p[1].name}
        /\ c.receiver_socket \in {None, p[2].name}
        /\ TypesCompatible(p[1].type, p[2].type)}

\* Pipeline.connect(sender, receiver): refused unless both components were
\* added, exactly one socket pair can be meant (or exactly one of equal
\* names), and the receiving socket is variadic or not yet connected
Resolved(g, c) ==
    LET cand == Candidates(g, c)
        same == {p \in cand : p[1].name = p[2].name}
    IN IF Cardinality(cand) = 1 THEN cand
       ELSE IF Cardinality(same) = 1 THEN same
       ELSE {}

CanConnect(g, c) ==
    /\ c.sender \in Names(g)
    /\ c.receiver \in Names(g)
    /\ Resolved(g, c) # {}
    /\ LET p == CHOOSE q \in Resolved(g, c) : TRUE
       IN \/ p[2].variadic
          \/ ~ \E e \in Edges(g) :
                  e.receiver = c.receiver /\ e.receiver_socket = p[2].name

Connect(g, c) ==
    LET p == CHOOSE q \in Resolved(g, c) : TRUE
    IN [g EXCEPT !.connections =
           Append(@, [sender |-> c.sender, sender_socket |-> p[1].name,
                      receiver |-> c.receiver, receiver_socket |-> p[2].name])]

\* the components with a path of connections to name
RECURSIVE Upstream(_, _, _)
Upstream(g, names, n) ==
    IF n = 0 THEN names
    ELSE Upstream(g, names \cup {e.sender : e \in {f \in Edges(g) : f.receiver \in names}},
                  n - 1)

Ancestors(g, name) ==
    Upstream(g, {e.sender : e \in {f \in Edges(g) : f.receiver = name}},
             Len(g.components))

Acyclic(g) == \A name \in Names(g) : name \notin Ancestors(g, name)

\* the connections into one input socket, in the order they were made
SendersOf(g, name, socket) ==
    SelectSeq(g.connections,
              LAMBDA e : e.receiver = name /\ e.receiver_socket = socket)

\* Pipeline.run validates its input first: every required socket must have a
\* sender or a value in data, and no connected (non-variadic) socket a value
ValidInput(g, data) ==
    \A name \in Names(g) : \A s \in InputSockets(ClassOf(g, name)) :
        LET given == name \in DOMAIN data /\ s.name \in DOMAIN data[name]
            connected == SendersOf(g, name, s.name) # <<>>
        IN /\ s.required => (connected \/ given)
           /\ (connected /\ ~s.variadic) => ~given

(* ------------------------------------------------------------- the state *)
VARIABLES
    nb,              \* the notebook of this session: "arbitrary" or "mlflow"
    content,         \* what each source location holds
    store,           \* the documents of the document store the call at work
                     \* uses (the persisted index; the in-memory store that
                     \* the last create_vector_database of rag_mlflow_documents
                     \* made, or the one the pipeline called is bound to)
    idx,             \* indexing_pipeline
    rag,             \* rag_pipeline
    defined,         \* the notebook globals assigned so far
    op,              \* the call the notebook is executing, or "idle"
    pc,              \* where that call is
    step,            \* the build calls of the current pipeline made so far
    arg,             \* the arguments of the call
    run,             \* the state of the current Pipeline.run
    row,             \* the row of eval_data being evaluated
    outputs,         \* retriever_model_function: the lists of sources found so far
    result,          \* the outputs column of the last evaluation that returned
    response,        \* the answer the last run of the example question cell returned
    docs,            \* retrieve_doc_sources: the documents of the answer
    error,           \* the exception the last call ended with, or None
    n_ingest,        \* calls of create_vector_database so far
    n_query,         \* runs of the example question cell so far
    n_eval,          \* evaluation calls so far
    store_at_start,  \* history: the store when the current indexing run began
    document_store,  \* rag_mlflow_documents: the documents of the store the
                     \* notebook-level name document_store is bound to
    ingested,        \* history: what the finished indexing runs on this store loaded,
                     \* and what their splitter was given and made of it
    seen,            \* history: per question, the last retrieval a finished run made
    runs,            \* the runs of the tracking server, in the order started
    eval_results_of_retriever_df_bge_small_en,
                     \* the results table read from result
    evaluate_results \* the results table of the top-K evaluation

vars ==
    <<nb, content, store, idx, rag, defined, op, pc, step, arg, run, row, outputs, result,
      response, docs, error, n_ingest, n_query, n_eval, store_at_start, document_store,
      ingested, seen, runs, eval_results_of_retriever_df_bge_small_en, evaluate_results>>

NoRun ==
    [pipe |-> None, data |-> <<>>, ran |-> <<>>, out |-> <<>>,
     status |-> "idle", failed |-> None, errors |-> {}, calling |-> None]

\* variant: the pipeline keeps what the run computed
RunKept(finished) == [finished EXCEPT !.status = "idle"]

\* Pipeline.run returns: its inputs and the outputs of its components are
\* locals of the call and go with it
RunReturned(finished) == NoRun

NoAnswer == [data |-> None, query |-> <<>>, documents |-> <<>>, meta |-> None]

NotSeen == [known |-> FALSE, store |-> <<>>, documents |-> <<>>]

\* with mlflow.start_run(): a new run of the tracking server becomes the
\* active run
StartRun(evaluation) ==
    Append(runs, [run_id |-> Len(runs) + 1, evaluation |-> evaluation,
                  status |-> "RUNNING", table |-> <<>>])

ActiveRun == runs # <<>> /\ runs[Len(runs)].status = "RUNNING"

\* variant: the run is ended by the last statement of the block, which an
\* exception skips
EndRunAtLastStatement(status) ==
    IF ActiveRun /\ status # "FAILED"
    THEN [runs EXCEPT ![Len(runs)].status = status] ELSE runs

\* leaving the with block ends the active run: FINISHED, or FAILED when an
\* exception leaves it
EndRun(status) ==
    IF ActiveRun THEN [runs EXCEPT ![Len(runs)].status = status] ELSE runs

\* mlflow.evaluate logs the results table to the active run, and the run ends
LogTable(table) ==
    [runs EXCEPT ![Len(runs)].table = table, ![Len(runs)].status = "FINISHED"]

\* the persisted index at os.getcwd()/vd is opened with recreate_index=False:
\* it may hold what an earlier session or another program wrote.  The first
\* page of rag_mlflow_documents is a long one, which split_length 253 cuts.
Init ==
    /\ nb \in {"arbitrary", "mlflow"}
    /\ content \in Contents
    /\ nb = "mlflow" => content[urls[1]] = LongText
    /\ store \in IF nb = "arbitrary" THEN {<<>>, <<ForeignDocument>>} ELSE {<<>>}
    /\ idx = EmptyPipeline
    /\ rag = EmptyPipeline
    /\ defined = {}
    /\ op = "idle"
    /\ pc = "idle"
    /\ step = 0
    /\ arg = [split_length |-> split_length, question |-> <<>>]
    /\ run = NoRun
    /\ row = 0
    /\ outputs = <<>>
    /\ result = <<>>
    /\ response = NoAnswer
    /\ docs = <<>>
    /\ error = None
    /\ n_ingest = 0
    /\ n_query = 0
    /\ n_eval = 0
    /\ store_at_start = <<>>
    /\ document_store = <<>>
    /\ ingested = {}
    /\ seen = [q \in Questions |-> NotSeen]
    /\ runs = <<>>
    /\ eval_results_of_retriever_df_bge_small_en = <<>>
    /\ evaluate_results = <<>>

(* ------------------------------------------------------ notebook calls *)
\* document_store = create_vector_database()   (rag_arbitrary_sources)
CallCreateVectorDatabase ==
    /\ nb = "arbitrary"
    /\ op = "idle"
    /\ n_ingest < MaxIngest
    /\ op' = "create_vector_database"
    /\ pc' = "build_indexing"
    /\ step' = 0
    /\ idx' = EmptyPipeline
    /\ arg' = [arg EXCEPT !.split_length = split_length]
    /\ n_ingest' = n_ingest + 1
    /\ error' = None
    /\ UNCHANGED <<nb, content, store, rag, defined, run, row, outputs, result, runs,
                   eval_results_of_retriever_df_bge_small_en, evaluate_results,
                   response, docs,
                   n_query, n_eval, store_at_start, document_store, ingested, seen>>

\* rag_pipeline = create_rag_pipeline(document_store=document_store)
CallCreateRagPipeline ==
    /\ nb = "arbitrary"
    /\ op = "idle"
    /\ "document_store" \in defined
    /\ "rag_pipeline" \notin defined
    /\ op' = "create_rag_pipeline"
    /\ pc' = "build_rag"
    /\ step' = 0
    /\ rag' = EmptyPipeline
    /\ error' = None
    /\ UNCHANGED <<nb, content, store, idx, defined, arg, run, row, outputs, result, runs,
                   eval_results_of_retriever_df_bge_small_en, evaluate_results,
                   response, docs,
                   n_ingest, n_query, n_eval, store_at_start, document_store, ingested, seen>>

\* the example question cell: rag_pipeline.run for one question
CallAsk ==
    /\ nb = "arbitrary"
    /\ op = "idle"
    /\ "rag_pipeline" \in defined
    /\ n_query < MaxQuery
    /\ arg' = [arg EXCEPT !.question = example_question]
    /\ op' = "ask"
    /\ pc' = "start_rag"
    /\ n_query' = n_query + 1
    /\ error' = None
    /\ UNCHANGED <<nb, content, store, idx, rag, defined, step, run, row, outputs,
                   result, runs,
                   eval_results_of_retriever_df_bge_small_en, evaluate_results,
                   response, docs, n_ingest, n_eval, store_at_start, document_store, ingested, seen>>

\* result = evaluate_embedding(): mlflow.evaluate calls
\* retriever_model_function, which applies retrieve_doc_sources to each
\* question of eval_data in turn
CallEvaluateEmbedding ==
    /\ nb = "arbitrary"
    /\ op = "idle"
    /\ "rag_pipeline" \in defined
    /\ n_eval < MaxEval
    /\ op' = "evaluate_embedding"
    /\ pc' = "start_rag"
    /\ row' = 1
    /\ outputs' = <<>>
    /\ n_eval' = n_eval + 1
    /\ error' = None
    /\ runs' = StartRun("retriever")
    /\ UNCHANGED <<nb, content, store, idx, rag, defined, step, arg, run, result,
                   eval_results_of_retriever_df_bge_small_en, evaluate_results, response, docs,
                   n_ingest, n_query, store_at_start, document_store, ingested, seen>>

\* evaluate_split_length(split_length) of rag_mlflow_documents, called with
\* 1000 and with 2000: it creates its own in-memory store and pipelines,
\* then evaluates as above.  seen and ingested are kept per store in use.
CallEvaluateSplitLength ==
    /\ nb = "mlflow"
    /\ op = "idle"
    /\ n_eval < MaxMlflowEval
    /\ \E n \in {split_length_1000, split_length_2000} :
          arg' = [arg EXCEPT !.split_length = n]
    /\ op' = "evaluate_split_length"
    /\ pc' = "build_indexing"
    /\ step' = 0
    /\ idx' = EmptyPipeline
    /\ store' = <<>>
    /\ ingested' = {}
    /\ row' = 1
    /\ outputs' = <<>>
    /\ n_eval' = n_eval + 1
    /\ error' = None
    /\ run' = NoRun
    /\ seen' = [q \in Questions |-> NotSeen]
    /\ UNCHANGED <<nb, content, rag, defined, result, runs,
                   eval_results_of_retriever_df_bge_small_en, evaluate_results,
                   response, docs, n_ingest, n_query,
                   store_at_start, document_store>>

\* document_store = create_vector_database(urls=urls, split_length=253) of
\* rag_mlflow_documents: a new in-memory store is created and loaded; the
\* cell goes on to create rag_pipeline over it.  The cell is run until it
\* has once succeeded.
CallCreateDocumentStore ==
    /\ nb = "mlflow"
    /\ op = "idle"
    /\ "document_store" \notin defined
    /\ n_ingest < MaxIngest
    /\ op' = "create_vector_database"
    /\ pc' = "build_indexing"
    /\ step' = 0
    /\ idx' = EmptyPipeline
    /\ store' = <<>>
    /\ ingested' = {}
    /\ arg' = [arg EXCEPT !.split_length = split_length_253]
    /\ n_ingest' = n_ingest + 1
    /\ error' = None
    /\ run' = NoRun
    /\ seen' = [q \in Questions |-> NotSeen]
    /\ UNCHANGED <<nb, content, rag, defined, row, outputs, result, runs,
                   eval_results_of_retriever_df_bge_small_en, evaluate_results, response, docs,
                   n_query, n_eval, store_at_start, document_store>>

QaRuns == {i \in 1..Len(runs) : runs[i].evaluation = "question-answering"}

\* the question-answering cell: with mlflow.start_run(): results =
\* mlflow.evaluate(model, eval_df, ..., extra_metrics=[relevance_metric,
\* mlflow.metrics.latency()]).  With the latency metric the evaluator calls
\* model for one row of eval_df at a time and times each call.
CallEvaluateQA ==
    /\ nb = "mlflow"
    /\ op = "idle"
    /\ "rag_pipeline" \in defined
    /\ n_eval < MaxMlflowEval
    /\ Cardinality(QaRuns) < MaxEval
    /\ op' = "evaluate_qa"
    /\ pc' = "start_rag"
    /\ row' = 1
    /\ outputs' = <<>>
    /\ n_eval' = n_eval + 1
    /\ error' = None
    /\ runs' = StartRun("question-answering")
    /\ store' = document_store
    /\ ingested' = {}
    /\ run' = NoRun
    /\ seen' = [q \in Questions |-> NotSeen]
    /\ UNCHANGED <<nb, content, idx, rag, defined, step, arg, result,
                   eval_results_of_retriever_df_bge_small_en, evaluate_results, response, docs,
                   n_ingest, n_query, store_at_start, document_store>>

(* ---------------------------------------------------- building a pipeline *)
Building == IF pc = "build_indexing" THEN "indexing" ELSE "rag"
Graph == IF pc = "build_indexing" THEN idx ELSE rag

\* an exception leaves the call: nothing in the notebooks catches it
\* variant: the lists of sources made before the exception are kept
RaiseOutKeepingLists(exception) ==
    /\ error' = exception
    /\ runs' = EndRun("FAILED")
    /\ op' = "idle"
    /\ pc' = "idle"
    /\ row' = 0
    /\ outputs' = outputs
    /\ docs' = <<>>

RaiseOut(exception) ==
    /\ error' = exception
    /\ runs' = EndRun("FAILED")
    /\ op' = "idle"
    /\ pc' = "idle"
    /\ row' = 0
    /\ outputs' = <<>>
    /\ docs' = <<>>

\* the step raises nothing
NoRaise == UNCHANGED <<error, op, pc, row, outputs, docs, runs>>

\* pipeline.add_component(...)
AddComponentStep ==
    /\ pc \in {"build_indexing", "build_rag"}
    /\ step < Len(Script(nb, Building))
    /\ LET c == Script(nb, Building)[step + 1]
       IN /\ c.call = "add_component"
          /\ IF pc = "build_indexing"
             THEN idx' = AddComponent(idx, c.name, c.class) /\ rag' = rag
             ELSE rag' = AddComponent(rag, c.name, c.class) /\ idx' = idx
    /\ step' = step + 1
    /\ UNCHANGED <<nb, content, store, defined, op, pc, arg, run, row, outputs,
                   result, runs,
                   eval_results_of_retriever_df_bge_small_en, evaluate_results,
                   response, docs, error, n_ingest, n_query, n_eval, store_at_start, document_store,
                   ingested, seen>>

\* pipeline.connect(...)
ConnectStep ==
    /\ pc \in {"build_indexing", "build_rag"}
    /\ step < Len(Script(nb, Building))
    /\ LET c == Script(nb, Building)[step + 1]
       IN /\ c.call = "connect"
          /\ IF ~CanConnect(Graph, c)
             THEN /\ RaiseOut("PipelineConnectError")
                  /\ UNCHANGED <<idx, rag, step>>
             ELSE /\ IF pc = "build_indexing"
                     THEN idx' = Connect(idx, c) /\ rag' = rag
                     ELSE rag' = Connect(rag, c) /\ idx' = idx
                  /\ step' = step + 1
                  /\ NoRaise
    /\ UNCHANGED <<nb, content, store, defined, arg, run, result,
                   eval_results_of_retriever_df_bge_small_en, evaluate_results,
                   response,
                   n_ingest, n_query, n_eval, store_at_start, document_store, ingested, seen>>

\* return rag_pipeline
ReturnRagPipeline ==
    /\ pc = "build_rag"
    /\ step = Len(Script(nb, "rag"))
    /\ IF op = "create_rag_pipeline"
       THEN /\ defined' = defined \cup {"rag_pipeline"}
            /\ op' = "idle"
            /\ pc' = "idle"
            /\ runs' = runs
       ELSE /\ pc' = "start_rag"
            /\ runs' = StartRun("retriever")
            /\ UNCHANGED <<defined, op>>
    /\ UNCHANGED <<nb, content, store, idx, rag, step, arg, run, row, outputs,
                   result,
                   eval_results_of_retriever_df_bge_small_en, evaluate_results,
                   response, docs, error, n_ingest, n_query, n_eval, store_at_start, document_store,
                   ingested, seen>>

(* ------------------------------------------------------- running a pipeline *)
NewRun(pipe, data) ==
    [pipe |-> pipe, data |-> data, ran |-> <<>>, out |-> <<>>,
     status |-> "running", failed |-> None, errors |-> {}, calling |-> None]

RunGraph == IF run.pipe = "indexing" THEN idx ELSE rag
Ran == {run.ran[i] : i \in 1..Len(run.ran)}

\* the components whose run calls a service over the network: the fetcher
\* requests the pages, the generator the model's completion
ExternalCalls == {"fetcher", "llm"}

\* Pipeline.run may start a component that has not run in this run and
\* whose connected senders have all produced their output, when it is not
\* inside the run of another component
CanStart(name) ==
    /\ pc \in {"run_indexing", "run_rag"}
    /\ run.status = "running"
    /\ name \in Names(RunGraph)
    /\ name \notin Ran
    /\ \A e \in Edges(RunGraph) : e.receiver = name => e.sender \in Ran
    /\ run.calling = None

\* variant: a stage that has run is run again when its inputs are there
ReadyAgain(name) ==
    /\ pc \in {"run_indexing", "run_rag"}
    /\ run.status = "running"
    /\ name \in Names(RunGraph)
    /\ \A e \in Edges(RunGraph) : e.receiver = name => e.sender \in Ran
    /\ run.calling = (IF name \in ExternalCalls THEN name ELSE None)

\* variant: a component runs while the call of another has not returned
ReadyWhileCalling(name) ==
    /\ pc \in {"run_indexing", "run_rag"}
    /\ run.status = "running"
    /\ name \in Names(RunGraph)
    /\ name \notin Ran
    /\ \A e \in Edges(RunGraph) : e.receiver = name => e.sender \in Ran
    /\ name \in ExternalCalls => run.calling = name

\* the run of a component comes to its end: that of a component that calls
\* a service when its call returns, that of another component as it is
\* started, which is when no call is outstanding
Ready(name) ==
    /\ pc \in {"run_indexing", "run_rag"}
    /\ run.status = "running"
    /\ name \in Names(RunGraph)
    /\ name \notin Ran
    /\ \A e \in Edges(RunGraph) : e.receiver = name => e.sender \in Ran
    /\ run.calling = (IF name \in ExternalCalls THEN name ELSE None)

\* the value a component receives on an input socket: what its sender
\* produced on the connected socket, or the value given in data, or nothing
\* for an optional socket left open; a variadic socket receives the list of
\* what its senders produced, in the order they ran
Input(name, socket) ==
    LET senders == SendersOf(RunGraph, name, socket)
        s == CHOOSE x \in InputSockets(ClassOf(RunGraph, name)) : x.name = socket
        sent(c) == \E i \in 1..Len(senders) : senders[i].sender = c
        order == SelectSeq(run.ran, sent)
        port(c) == (CHOOSE e \in Edges(RunGraph) :
                       e.sender = c /\ e.receiver = name /\ e.receiver_socket = socket
                   ).sender_socket
    IN IF senders = <<>>
       THEN IF name \in DOMAIN run.data /\ socket \in DOMAIN run.data[name]
            THEN run.data[name][socket]
            ELSE <<>>
       ELSE IF s.variadic
            THEN [i \in 1..Len(order) |-> run.out[order[i]][port(order[i])]]
            ELSE run.out[senders[1].sender][senders[1].sender_socket]

\* the component returned; failures are the sources it logged as failed and
\* left out (history: run.errors collects every failure of the run)
CompleteWith(name, produced, failures) ==
    /\ run' = [run EXCEPT !.ran = Append(@, name), !.out = (name :> produced) @@ @,
                          !.errors = @ \cup failures, !.calling = None]
    /\ NoRaise

Complete(name, produced) == CompleteWith(name, produced, {})

\* variant: the failure is noted and the component is left to run again
RetryStage(name) ==
    /\ run' = [run EXCEPT !.errors = @ \cup {name}]
    /\ NoRaise

\* the component raised: Pipeline.run does not catch it, and neither does
\* the notebook code that called Pipeline.run
RaiseFromStage(name) ==
    /\ run' = [run EXCEPT !.status = "raised", !.failed = name,
                          !.errors = @ \cup {name},
                          !.data = <<>>, !.out = <<>>, !.calling = None]
    /\ RaiseOut("ComponentError")

\* Pipeline.run calls the run method of a component that calls a service:
\* the request is sent, and the runner is inside that call until it returns
\* or raises
IssueCall ==
    /\ \E name \in ExternalCalls :
          /\ CanStart(name)
          /\ run' = [run EXCEPT !.calling = name]
    /\ UNCHANGED <<nb, content, store, idx, rag, defined, op, pc, step, arg, row, outputs,
                   result, response, docs, error, n_ingest, n_query, n_eval, store_at_start, document_store,
                   ingested, seen, runs, eval_results_of_retriever_df_bge_small_en,
                   evaluate_results>>

StageFrame ==
    UNCHANGED <<nb, content, idx, rag, defined, step, arg, result,
                eval_results_of_retriever_df_bge_small_en, evaluate_results,
                response,
                n_ingest, n_query, n_eval, store_at_start, document_store, ingested, seen>>

\* indexing_pipeline.run(data={...})
StartIndexingRun ==
    /\ pc = "build_indexing"
    /\ step = Len(Script(nb, "indexing"))
    /\ LET data == IF nb = "arbitrary"
                   THEN [fetcher |-> [urls |-> urls],
                         pdf_converter |-> [sources |-> pdf_sources]]
                   ELSE [fetcher |-> [urls |-> urls]]
       IN IF ValidInput(idx, data)
          THEN /\ run' = NewRun("indexing", data)
               /\ pc' = "run_indexing"
               /\ store_at_start' = store
               /\ UNCHANGED <<op, error, row, outputs, docs, runs>>
          ELSE /\ RaiseOut("ValueError")
               /\ UNCHANGED <<run, store_at_start>>
    /\ UNCHANGED <<nb, content, store, idx, rag, defined, step, arg,
                   result,
                   eval_results_of_retriever_df_bge_small_en, evaluate_results,
                   response, n_ingest, n_query, n_eval, ingested, seen, document_store>>

RunFetcher ==
    /\ Ready("fetcher")
    /\ \E failing \in SUBSET {urls[i] : i \in 1..Len(urls)} :
          LET r == Fetch(Input("fetcher", "urls"), failing, content)
          IN IF r.raised
             THEN RaiseFromStage("fetcher")
             ELSE CompleteWith("fetcher", [streams |-> r.streams], failing)
    /\ UNCHANGED store
    /\ StageFrame

RunHtmlConverter ==
    /\ Ready("html_converter")
    /\ Complete("html_converter",
                [documents |-> HtmlToDocuments(Input("html_converter", "sources"))])
    /\ UNCHANGED store
    /\ StageFrame

RunPdfConverter ==
    /\ Ready("pdf_converter")
    /\ \E failing \in SUBSET {pdf_sources[i] : i \in 1..Len(pdf_sources)} :
          CompleteWith("pdf_converter",
                       [documents |->
                           PdfToDocuments(Input("pdf_converter", "sources"), failing, content)],
                       failing)
    /\ UNCHANGED store
    /\ StageFrame

RunJoiner ==
    /\ Ready("document_joiner")
    /\ Complete("document_joiner",
                [documents |-> JoinDocuments(Input("document_joiner", "documents"))])
    /\ UNCHANGED store
    /\ StageFrame

RunCleaner ==
    /\ Ready("cleaner")
    /\ Complete("cleaner", [documents |-> CleanDocuments(Input("cleaner", "documents"))])
    /\ UNCHANGED store
    /\ StageFrame

\* variant: the split ids go on counting from the number of stored documents
RunSplitterCounting ==
    /\ Ready("splitter")
    /\ LET made == SplitDocuments(Input("splitter", "documents"),
                                  arg.split_length, split_overlap)
       IN Complete("splitter",
                   [documents |->
                       [i \in 1..Len(made) |->
                           MakeDocument(made[i].content,
                                        [made[i].meta EXCEPT !.split_id = @ + Len(store)])]])
    /\ UNCHANGED store
    /\ StageFrame

RunSplitter ==
    /\ Ready("splitter")
    /\ Complete("splitter",
                [documents |-> SplitDocuments(Input("splitter", "documents"),
                                              arg.split_length, split_overlap)])
    /\ UNCHANGED store
    /\ StageFrame

\* the embedding model is an external service: the call may fail
RunDocumentEmbedder ==
    /\ Ready("document_embedder")
    /\ \/ /\ Complete("document_embedder",
                      [documents |-> EmbedDocuments(Input("document_embedder", "documents"))])
       \/ RaiseFromStage("document_embedder")
    /\ UNCHANGED store
    /\ StageFrame

RunWriter ==
    /\ Ready("writer")
    /\ store' = WriteDocuments(store, Input("writer", "documents"), n_ingest + n_eval)
    /\ Complete("writer", [documents_written |-> Len(store') - Len(store)])
    /\ StageFrame

\* the sources the current indexing run loaded
Loaded ==
    {run.out["fetcher"].streams[i].url : i \in 1..Len(run.out["fetcher"].streams)}
    \cup (IF "pdf_converter" \in Ran
          THEN {run.out["pdf_converter"].documents[i].meta.file_path :
                   i \in 1..Len(run.out["pdf_converter"].documents)}
          ELSE {})

\* variant: evaluate_split_length declares document_store global
AssignedAsGlobal(created) == created

\* document_store = create_vector_database(...): in the cell the name is the
\* notebook's; in evaluate_split_length it is a local of the call, and the
\* notebook's name keeps what it was bound to
Assigned(created) ==
    IF op = "evaluate_split_length" THEN document_store ELSE created

\* indexing_pipeline.run returns; create_vector_database returns the store
ReturnFromIndexing ==
    /\ pc = "run_indexing"
    /\ run.status = "running"
    /\ Ran = Names(idx)
    /\ run' = RunReturned(run)
    /\ store_at_start' = <<>>
    /\ document_store' = IF nb = "mlflow" THEN Assigned(store) ELSE document_store
    /\ ingested' = ingested \cup {[loaded |-> Loaded, split_length |-> arg.split_length,
                                   cleaned |-> run.out["cleaner"].documents,
                                   chunks |-> run.out["splitter"].documents]}
    /\ IF op = "create_vector_database" /\ nb = "arbitrary"
       THEN /\ defined' = defined \cup {"document_store"}
            /\ op' = "idle"
            /\ pc' = "idle"
            /\ UNCHANGED <<rag, step>>
       ELSE /\ pc' = "build_rag"
            /\ step' = 0
            /\ rag' = EmptyPipeline
            /\ IF op = "create_vector_database"
               THEN /\ defined' = defined \cup {"document_store"}
                    /\ op' = "create_rag_pipeline"
               ELSE UNCHANGED <<defined, op>>
    /\ UNCHANGED <<nb, content, store, idx, arg, row, outputs, result, runs,
                   eval_results_of_retriever_df_bge_small_en, evaluate_results,
                   response, docs, error,
                   n_ingest, n_query, n_eval, seen>>

\* variant: every row of the batch asks the question of the first row
QuestionOfFirstRow ==
    IF op = "ask" THEN arg.question
    ELSE IF op = "evaluate_qa" THEN eval_df[1].questions
    ELSE eval_data[1].question

Question ==
    IF op = "ask" THEN arg.question
    ELSE IF op = "evaluate_qa" THEN eval_df[row].questions
    ELSE eval_data[row].question

\* rag_pipeline.run({"text_embedder": ..., "prompt_builder": ..., "answer_builder": ...})
StartRagRun ==
    /\ pc = "start_rag"
    /\ LET data == [text_embedder |-> [text |-> Question],
                    prompt_builder |-> [question |-> Question],
                    answer_builder |-> [query |-> Question]]
       IN IF ValidInput(rag, data)
          THEN /\ run' = NewRun("rag", data)
               /\ pc' = "run_rag"
               /\ UNCHANGED <<op, error, row, outputs, docs, runs>>
          ELSE /\ RaiseOut("ValueError")
               /\ UNCHANGED run
    /\ UNCHANGED <<nb, content, store, idx, rag, defined, step, arg,
                   result,
                   eval_results_of_retriever_df_bge_small_en, evaluate_results,
                   response, n_ingest, n_query, n_eval, store_at_start, document_store, ingested, seen>>

RunTextEmbedder ==
    /\ Ready("text_embedder")
    /\ \/ /\ Complete("text_embedder",
                      [embedding |-> Embed(Input("text_embedder", "text"))])
       \/ RaiseFromStage("text_embedder")
    /\ UNCHANGED store
    /\ StageFrame

\* variant: within an evaluation batch equally near documents come in the
\* opposite order
RunRetrieverUnstableTies ==
    /\ Ready("retriever")
    /\ LET rev == [i \in 1..Len(store) |-> store[Len(store) + 1 - i]]
       IN Complete("retriever",
                   [documents |-> Retrieve(IF row = 0 THEN store ELSE rev,
                                           Input("retriever", "query_embedding"))])
    /\ UNCHANGED store
    /\ StageFrame

\* variant: the store hands out its own documents, and the score is set on them
RunRetrieverInPlace ==
    /\ Ready("retriever")
    /\ Complete("retriever",
                [documents |-> Retrieve(store, Input("retriever", "query_embedding"))])
    /\ store' = [i \in 1..Len(store) |->
                    [store[i] EXCEPT !.score =
                        <<Similarity(Input("retriever", "query_embedding"),
                                     store[i].embedding)>>]]
    /\ StageFrame

RunRetriever ==
    /\ Ready("retriever")
    /\ Complete("retriever",
                [documents |-> Retrieve(store, Input("retriever", "query_embedding"))])
    /\ UNCHANGED store
    /\ StageFrame

RunPromptBuilder ==
    /\ Ready("prompt_builder")
    /\ Complete("prompt_builder",
                [prompt |-> BuildPrompt(Input("prompt_builder", "question"),
                                        Input("prompt_builder", "documents"))])
    /\ UNCHANGED store
    /\ StageFrame

\* OpenAIGenerator: one reply and its usage metadata, or the API call fails
RunGenerator ==
    /\ Ready("llm")
    /\ \/ /\ \E reply \in Replies :
                Complete("llm", [replies |-> <<reply>>, meta |-> <<"usage">>,
                                 prompt |-> Input("llm", "prompt")])
       \/ RaiseFromStage("llm")
    /\ UNCHANGED store
    /\ StageFrame

RunAnswerBuilder ==
    /\ Ready("answer_builder")
    /\ Complete("answer_builder",
                [answers |-> BuildAnswers(Input("answer_builder", "query"),
                                          Input("answer_builder", "replies"),
                                          Input("answer_builder", "meta"),
                                          Input("answer_builder", "documents"))])
    /\ UNCHANGED store
    /\ StageFrame

\* rag_pipeline.run returns: response["answer_builder"]["answers"][0]
ReturnFromRag ==
    /\ pc = "run_rag"
    /\ run.status = "running"
    /\ Ran = Names(rag)
    /\ run' = RunReturned(run)
    /\ IF op = "ask"
       THEN /\ response' = run.out["answer_builder"].answers[1]
            /\ docs' = docs
       ELSE IF op = "evaluate_qa"
       THEN UNCHANGED <<response, docs>>
       ELSE /\ docs' = run.out["answer_builder"].answers[1].documents
            /\ response' = response
    /\ seen' = [seen EXCEPT ![Question] =
                   [known |-> TRUE, store |-> store,
                    documents |-> run.out["retriever"].documents]]
    /\ IF op = "ask"
       THEN /\ op' = "idle" /\ pc' = "idle"
            /\ UNCHANGED <<row, outputs>>
       ELSE IF op = "evaluate_qa"
       THEN /\ outputs' = Append(outputs,
                               [result |-> qa(run.out["answer_builder"].answers[1]).result,
                                source_documents |->
                                    qa(run.out["answer_builder"].answers[1]).source_documents,
                                latency |-> Len(run.ran)])
            /\ op' = op
            /\ IF row < Len(eval_df)
               THEN row' = row + 1 /\ pc' = "start_rag"
               ELSE row' = row /\ pc' = "judge"
       ELSE /\ pc' = "extract" /\ op' = op
            /\ UNCHANGED <<row, outputs>>
    /\ UNCHANGED <<nb, content, store, idx, rag, defined, step, arg,
                   result, runs,
                   eval_results_of_retriever_df_bge_small_en, evaluate_results,
                   error, n_ingest, n_query, n_eval, store_at_start, document_store, ingested>>

ExtractSource(doc) == IF nb = "arbitrary" THEN extract_source(doc) ELSE extract_source_url(doc)

\* retrieve_doc_sources returns [extract_source(doc) for doc in docs], and
\* Series.apply goes on to the next question; after the last one the
\* evaluation returns and the notebook assigns result
Extract ==
    /\ pc = "extract"
    /\ LET ex == [i \in 1..Len(docs) |-> ExtractSource(docs[i])]
       IN IF \E i \in 1..Len(docs) : ex[i].raised # None
          THEN /\ RaiseOut("KeyError")
               /\ result' = result
          ELSE LET found == Append(outputs, [i \in 1..Len(docs) |-> ex[i].value])
               IN /\ error' = error
                  /\ docs' = <<>>
                  /\ IF row < Len(eval_data)
                     THEN /\ row' = row + 1
                          /\ outputs' = found
                          /\ result' = result
                          /\ runs' = runs
                          /\ pc' = "start_rag"
                          /\ op' = op
                     ELSE /\ row' = 0
                          /\ outputs' = <<>>
                          /\ result' = found
                          /\ \E when_empty \in {0, 1} :
                                runs' = LogTable(ResultsTable(eval_data, found, when_empty))
                          /\ pc' = "idle"
                          /\ op' = "idle"
    /\ UNCHANGED <<nb, content, store, idx, rag, defined, step, arg, run, response,
                   eval_results_of_retriever_df_bge_small_en, evaluate_results,
                   n_ingest, n_query, n_eval, store_at_start, document_store, ingested, seen>>

\* the predictions are made: the judge model grades each answer against its
\* question and its context, the results table is logged to the run, and
\* the evaluation returns
JudgeAndLog ==
    /\ pc = "judge"
    /\ \E grades \in [1..Len(eval_df) -> Grades] :
          runs' = LogTable(QaTable(eval_df, outputs, grades))
    /\ outputs' = <<>>
    /\ row' = 0
    /\ op' = "idle"
    /\ pc' = "idle"
    /\ UNCHANGED <<nb, content, store, idx, rag, defined, step, arg, run, result,
                   eval_results_of_retriever_df_bge_small_en, evaluate_results, response, docs,
                   error, n_ingest, n_query, n_eval, store_at_start, document_store, ingested, seen>>

\* the run result was logged under: the last retriever evaluation that finished
ResultRun ==
    CHOOSE i \in 1..Len(runs) :
        /\ runs[i].evaluation = "retriever" /\ runs[i].status = "FINISHED"
        /\ \A j \in (i + 1)..Len(runs) :
              ~(runs[j].evaluation = "retriever" /\ runs[j].status = "FINISHED")

\* eval_results_of_retriever_df_bge_small_en = result.tables["eval_results_table"]:
\* the table is read from the artifacts of the run of result
ReadResultsTable ==
    /\ nb = "arbitrary"
    /\ op = "idle"
    /\ result # <<>>
    /\ eval_results_of_retriever_df_bge_small_en' = runs[ResultRun].table
    /\ UNCHANGED <<nb, content, store, idx, rag, defined, op, pc, step, arg, run, row, outputs,
                   result, response, docs, error, n_ingest, n_query, n_eval, store_at_start, document_store,
                   ingested, seen, runs, evaluate_results>>

TopKRuns == {i \in 1..Len(runs) : runs[i].evaluation = "top_k"}

\* variant: the evaluation logs into the run logged last
LogIntoLastRun(table) == [runs EXCEPT ![Len(runs)].table = table]

\* with mlflow.start_run() as run: mlflow.evaluate(...) of data that holds
\* the predictions: the run is started, the table logged, the run ended
LogUnderNewRun(table) ==
    Append(runs, [run_id |-> Len(runs) + 1, evaluation |-> "top_k",
                  status |-> "FINISHED", table |-> table])

\* the top-K cell: evaluate_results = mlflow.evaluate(data=
\* eval_results_of_retriever_df_bge_small_en, targets="source",
\* predictions="outputs", extra_metrics=[precision_at_k(1), ..., ndcg_at_k(3)])
EvaluateTopK ==
    /\ nb = "arbitrary"
    /\ op = "idle"
    /\ eval_results_of_retriever_df_bge_small_en # <<>>
    /\ Cardinality(TopKRuns) < MaxTopK
    /\ \E when_empty \in {0, 1} :
          LET df == eval_results_of_retriever_df_bge_small_en
              table == [i \in 1..Len(df) |->
                           WithScores(df[i], Scores(Ks, df[i].outputs, df[i].source, when_empty))]
          IN /\ evaluate_results' = table
             /\ runs' = LogUnderNewRun(table)
    /\ error' = None
    /\ UNCHANGED <<nb, content, store, idx, rag, defined, op, pc, step, arg, run, row, outputs,
                   result, response, docs, n_ingest, n_query, n_eval, store_at_start, document_store,
                   ingested, seen, eval_results_of_retriever_df_bge_small_en>>

Next ==
    \/ CallCreateVectorDatabase
    \/ CallCreateRagPipeline
    \/ CallAsk
    \/ CallEvaluateEmbedding
    \/ CallEvaluateSplitLength
    \/ CallCreateDocumentStore
    \/ CallEvaluateQA
    \/ AddComponentStep
    \/ ConnectStep
    \/ ReturnRagPipeline
    \/ StartIndexingRun
    \/ IssueCall
    \/ RunFetcher
    \/ RunHtmlConverter
    \/ RunPdfConverter
    \/ RunJoiner
    \/ RunCleaner
    \/ RunSplitter
    \/ RunDocumentEmbedder
    \/ RunWriter
    \/ ReturnFromIndexing
    \/ StartRagRun
    \/ RunTextEmbedder
    \/ RunRetriever
    \/ RunPromptBuilder
    \/ RunGenerator
    \/ RunAnswerBuilder
    \/ ReturnFromRag
    \/ Extract
    \/ JudgeAndLog
    \/ ReadResultsTable
    \/ EvaluateTopK

Spec == Init /\ [][Next]_vars

\* a call that was issued returns or raises
CallReturns == RunFetcher \/ RunGenerator

\* what Pipeline.run does by itself: it starts the next component, runs
\* the components that call no service, and returns
RunnerStep ==
    \/ IssueCall
    \/ RunHtmlConverter
    \/ RunPdfConverter
    \/ RunJoiner
    \/ RunCleaner
    \/ RunSplitter
    \/ RunDocumentEmbedder
    \/ RunWriter
    \/ ReturnFromIndexing
    \/ RunTextEmbedder
    \/ RunRetriever
    \/ RunPromptBuilder
    \/ RunAnswerBuilder
    \/ ReturnFromRag

\* a session of rag_arbitrary_sources over short pages and a new index: it
\* ingests until that has succeeded, builds the query pipeline and asks
\* the example question
LiveInit ==
    /\ Init
    /\ nb = "arbitrary"
    /\ store = <<>>
    /\ content[urls[1]] = ShortText

LiveNext ==
    \/ CallCreateVectorDatabase /\ "document_store" \notin defined
    \/ CallCreateRagPipeline
    \/ CallAsk
    \/ AddComponentStep
    \/ ConnectStep
    \/ ReturnRagPipeline
    \/ StartIndexingRun
    \/ StartRagRun
    \/ CallReturns
    \/ RunnerStep

\* the sessions in which every call that is issued returns and Pipeline.run,
\* a synchronous loop, goes on whenever it can
LiveSpec ==
    LiveInit /\ [][LiveNext]_vars /\ WF_vars(CallReturns) /\ WF_vars(RunnerStep)

(* ------------------------------------------- the cleaner and the splitter *)
\* The cleaner and the splitter of create_vector_database applied to one
\* document, for texts of every length up to MaxSplitWords and for split
\* lengths that cut them into one, a few or many chunks, and for the longest
\* source text and the split lengths the notebooks pass.  arg.question holds
\* the cleaned text once the cleaner has run.
SplitLengths ==
    {split_overlap + 1, split_overlap + 4, 2 * split_overlap + 1, split_length_253,
     split_length}

\* a text of len words: all different, or few different words with blank
\* units between them
TextOf(len, plain) ==
    [i \in 1..len |-> IF plain THEN i ELSE IF i % 7 = 3 THEN 0 ELSE (i % 3) + 1]

SplitInit ==
    /\ nb = "arbitrary"
    /\ \E len \in (0..MaxSplitWords) \cup {MaxWords} : \E plain \in BOOLEAN :
          content = [src \in Sources |-> TextOf(len, plain)]
    /\ store = <<>>
    /\ idx = EmptyPipeline
    /\ rag = EmptyPipeline
    /\ defined = {}
    /\ op = "create_vector_database"
    /\ pc = "clean"
    /\ step = 0
    /\ \E n \in SplitLengths :
          /\ Len(content[urls[1]]) > MaxSplitWords => n > MaxSplitWords
          /\ arg = [split_length |-> n, question |-> <<>>]
    /\ run = NoRun
    /\ row = 0
    /\ outputs = <<>>
    /\ result = <<>>
    /\ response = NoAnswer
    /\ docs = <<MakeDocument(content[urls[1]], Meta(urls[1], None, 0))>>
    /\ error = None
    /\ n_ingest = 0
    /\ n_query = 0
    /\ n_eval = 0
    /\ store_at_start = <<>>
    /\ document_store = <<>>
    /\ ingested = {}
    /\ seen = [q \in Questions |-> NotSeen]
    /\ runs = <<>>
    /\ eval_results_of_retriever_df_bge_small_en = <<>>
    /\ evaluate_results = <<>>

SplitFrame ==
    UNCHANGED <<nb, content, store, idx, rag, defined, op, step, run, row, outputs, result, runs,
                eval_results_of_retriever_df_bge_small_en, evaluate_results,
                response, error, n_ingest, n_query, n_eval, store_at_start, document_store, ingested, seen>>

\* cleaner.run(documents)
ApplyCleaner ==
    /\ pc = "clean"
    /\ docs' = CleanDocuments(docs)
    /\ arg' = [arg EXCEPT !.question = CleanDocuments(docs)[1].content]
    /\ pc' = "split"
    /\ SplitFrame

\* splitter.run(documents)
ApplySplitter ==
    /\ pc = "split"
    /\ docs' = SplitDocuments(docs, arg.split_length, split_overlap)
    /\ arg' = arg
    /\ pc' = "split_done"
    /\ SplitFrame

SplitNext == ApplyCleaner \/ ApplySplitter

SplitSpec == SplitInit /\ [][SplitNext]_vars

(* ------------------------------------------- the metrics of a results table *)
\* the lists of at most n sources
Lists(n) == UNION {[1..m -> Sources] : m \in 0..n}

\* A session in which result = evaluate_embedding() has returned.  The
\* sources of eval_data are the user's, and the retrieved ones follow the
\* store: the first row holds any expected sources and any list of at most
\* MaxRetrieved sources, a second row the sources eval_data expects and at
\* most one retrieved.
EvalInit ==
    /\ nb = "arbitrary"
    /\ content = [src \in Sources |-> ShortText]
    /\ store = <<>>
    /\ idx = EmptyPipeline
    /\ rag = EmptyPipeline
    /\ defined = {}
    /\ op = "idle"
    /\ pc = "idle"
    /\ step = 0
    /\ arg = [split_length |-> split_length, question |-> <<>>]
    /\ run = NoRun
    /\ row = 0
    /\ outputs = <<>>
    /\ response = NoAnswer
    /\ docs = <<>>
    /\ error = None
    /\ n_ingest = 0
    /\ n_query = 0
    /\ n_eval = 1
    /\ store_at_start = <<>>
    /\ document_store = <<>>
    /\ ingested = {}
    /\ seen = [q \in Questions |-> NotSeen]
    /\ eval_results_of_retriever_df_bge_small_en = <<>>
    /\ evaluate_results = <<>>
    /\ \E n \in 1..Len(eval_data) :
       \E source1 \in SUBSET Sources : \E outputs1 \in Lists(MaxRetrieved) :
       \E outputs2 \in Lists(1) :
       \E when_empty \in {0, 1} :
          LET data == [i \in 1..n |->
                          [question |-> eval_data[i].question,
                           source |-> IF i = 1 THEN source1 ELSE eval_data[i].source]]
              predictions == [i \in 1..n |-> IF i = 1 THEN outputs1 ELSE outputs2]
          IN /\ result = predictions
             /\ runs = << [run_id |-> 1, evaluation |-> "retriever", status |-> "FINISHED",
                           table |-> ResultsTable(data, predictions, when_empty)] >>

EvalNext == ReadResultsTable \/ EvaluateTopK

EvalSpec == EvalInit /\ [][EvalNext]_vars

(* ------------------------------------------------------------ the retriever *)
\* a store of n chunks of one page; chunk i begins with the word
\* (i * a + b) % MaxWord, which is what its embedding is made of
StoreOf(n, a, b) ==
    WriteDocuments(<<>>,
                   EmbedDocuments([i \in 1..n |->
                       MakeDocument(<<(i * a + b) % MaxWord, i>>, Meta(urls[1], None, i - 1))]),
                   1)

\* A retriever over a loaded store is about to be given a question.
RetrieveInit ==
    /\ nb \in {"arbitrary", "mlflow"}
    /\ content = [src \in Sources |-> ShortText]
    /\ \E n \in 0..MaxStored : \E a, b \in 0..(MaxWord - 1) : store = StoreOf(n, a, b)
    /\ idx = EmptyPipeline
    /\ rag = EmptyPipeline
    /\ defined = {"document_store"}
    /\ op = "ask"
    /\ pc = "embed"
    /\ step = 0
    /\ \E w \in 0..(MaxWord - 1) : arg = [split_length |-> split_length, question |-> <<w>>]
    /\ run = NoRun
    /\ row = 0
    /\ outputs = <<>>
    /\ result = <<>>
    /\ response = NoAnswer
    /\ docs = <<>>
    /\ error = None
    /\ n_ingest = 1
    /\ n_query = 1
    /\ n_eval = 0
    /\ store_at_start = <<>>
    /\ document_store = <<>>
    /\ ingested = {}
    /\ seen = [q \in Questions |-> NotSeen]
    /\ runs = <<>>
    /\ eval_results_of_retriever_df_bge_small_en = <<>>
    /\ evaluate_results = <<>>

RetrieveFrame ==
    UNCHANGED <<nb, content, store, idx, rag, defined, op, step, arg, run, row, result,
                response, error, n_ingest, n_query, n_eval, store_at_start, document_store, ingested, seen,
                runs, eval_results_of_retriever_df_bge_small_en, evaluate_results>>

\* text_embedder.run(text)
ApplyTextEmbedder ==
    /\ pc = "embed"
    /\ outputs' = Embed(arg.question)
    /\ docs' = docs
    /\ pc' = "retrieve"
    /\ RetrieveFrame

\* retriever.run(query_embedding)
ApplyRetriever ==
    /\ pc = "retrieve"
    /\ docs' = Retrieve(store, outputs)
    /\ outputs' = outputs
    /\ pc' = "retrieved"
    /\ RetrieveFrame

RetrieveNext == ApplyTextEmbedder \/ ApplyRetriever

RetrieveSpec == RetrieveInit /\ [][RetrieveNext]_vars

(* ------------------------------------------- extract_source on any metadata *)
\* [extract_source(doc) for doc in docs] of retrieve_doc_sources, over
\* documents whose metadata holds a url, a file_path, both or neither
SourceInit ==
    /\ nb = "arbitrary"
    /\ content = [src \in Sources |-> ShortText]
    /\ store = <<>>
    /\ idx = EmptyPipeline
    /\ rag = EmptyPipeline
    /\ defined = {"document_store", "rag_pipeline"}
    /\ op = "evaluate_embedding"
    /\ pc = "extract_source"
    /\ step = 0
    /\ arg = [split_length |-> split_length, question |-> <<1>>]
    /\ run = NoRun
    /\ row = 1
    /\ outputs = <<>>
    /\ result = <<>>
    /\ response = NoAnswer
    /\ \E n \in 1..MaxRetrieved :
          docs \in [1..n -> {MakeDocument(<<1>>, Meta(u, p, 0)) :
                                u \in {None, "u1"}, p \in {None, "p1"}}]
    /\ error = None
    /\ n_ingest = 1
    /\ n_query = 0
    /\ n_eval = 1
    /\ store_at_start = <<>>
    /\ document_store = <<>>
    /\ ingested = {}
    /\ seen = [q \in Questions |-> NotSeen]
    /\ runs = <<>>
    /\ eval_results_of_retriever_df_bge_small_en = <<>>
    /\ evaluate_results = <<>>

\* the comprehension calls extract_source on the next document: its return
\* value is appended, its KeyError ends the comprehension
ApplyExtractSource ==
    /\ pc = "extract_source"
    /\ step < Len(docs)
    /\ LET r == extract_source(docs[step + 1])
       IN IF r.raised # None
          THEN /\ error' = r.raised
               /\ pc' = "raised"
               /\ UNCHANGED <<step, outputs>>
          ELSE /\ outputs' = Append(outputs, r.value)
               /\ step' = step + 1
               /\ pc' = IF step + 1 = Len(docs) THEN "returned" ELSE pc
               /\ error' = error
    /\ UNCHANGED <<nb, content, store, idx, rag, defined, op, arg, run, row, result,
                   response, docs, n_ingest, n_query, n_eval, store_at_start, document_store, ingested,
                   seen, runs, eval_results_of_retriever_df_bge_small_en,
                   evaluate_results>>

SourceNext == ApplyExtractSource

SourceSpec == SourceInit /\ [][SourceNext]_vars

(* ============================================================ properties *)
\* the writer of the current indexing run has written
WriterRan == pc = "run_indexing" /\ "writer" \in Ran

\* the step of rag_mlflow_documents turns to another store object: a call
\* that creates a new, empty one, or the question-answering cell, whose
\* pipeline holds the notebook-level one
NewStoreObject ==
    /\ op = "idle"
    /\ \/ op' = "evaluate_split_length"
       \/ nb = "mlflow" /\ op' = "create_vector_database"
       \/ op' = "evaluate_qa"

(* ---------------------------------------------------------------------- C1 *)
C1_NoTwoStoredWithOneId ==
    \A i, j \in 1..Len(store) : store[i].id = store[j].id => i = j

C1_WrittenChunksHeld ==
    WriterRan => Ids(Input("writer", "documents")) \subseteq Ids(store)

C1_StoredStay ==
    ~NewStoreObject =>
        /\ Len(store') >= Len(store)
        /\ \A i \in 1..Len(store) : store'[i] = store[i]

\* C1 (as stated): after any sequence of ingestion runs against one store no
\* two stored chunks have the same content.
C1_OncePerContent ==
    \A i, j \in 1..Len(store) : store[i].content = store[j].content => i = j

\* C1 (amended): after any sequence of ingestion runs against one store every
\* chunk id (the hash of content and metadata) is held exactly once: every
\* chunk a run hands to the writer is in the store afterwards, no two stored
\* documents share an id, and a stored document is never written again nor
\* replaced.
C1_OncePerId ==
    /\ [](C1_NoTwoStoredWithOneId /\ C1_WrittenChunksHeld)
    /\ [][C1_StoredStay]_vars

\* a second ingestion run found all its chunks stored and skipped them, in a
\* store holding the same text under two ids
C1_SkippedAll ==
    /\ WriterRan
    /\ n_ingest = 2
    /\ store_at_start # <<>>
    /\ Len(Input("writer", "documents")) >= 3
    /\ run.out["writer"].documents_written = 0
    /\ ~C1_OncePerContent

(* ---------------------------------------------------------------------- C2 *)
\* an earlier run on this store loaded the same sources with the same
\* split parameters as the current one
SameAsEarlierRun ==
    \E h \in ingested : h.split_length = arg.split_length /\ h.loaded = Loaded

\* C2: when an ingestion run with the sources and split parameters of an
\* earlier run on the same store has written, the store is what it was when
\* the run began (same documents, same count).
C2_ReingestionChangesNothing ==
    (WriterRan /\ SameAsEarlierRun) => store = store_at_start

C2_Reingested ==
    /\ WriterRan
    /\ SameAsEarlierRun
    /\ Loaded = Sources
    /\ Len(store) >= 3

(* ---------------------------------------------------------------------- C3 *)
\* the chunks of one source, as the stages after the converters make them
SourceDocument(src) ==
    IF \E i \in 1..Len(urls) : urls[i] = src
    THEN MakeDocument(content[src], Meta(src, None, 0))
    ELSE MakeDocument(content[src], Meta(None, src, 0))

ChunksOf(src) ==
    EmbedDocuments(SplitDocuments(CleanDocuments(<<SourceDocument(src)>>),
                                  arg.split_length, split_overlap))

RunSources == IF nb = "arbitrary" THEN Sources ELSE {urls[i] : i \in 1..Len(urls)}

\* C3: in an ingestion run over several sources the failure of a source
\* never raises out of the fetcher or a converter, the run goes on to its
\* writer, and once the writer has run the store holds every chunk of every
\* source that did not fail.
C3_SiblingsWritten ==
    /\ (run.pipe = "indexing" /\ run.status = "raised")
          => run.failed \notin {"fetcher", "html_converter", "pdf_converter"}
    /\ (pc = "run_indexing" /\ Ran # Names(idx)) =>
          \E name \in Names(idx) : Ready(name) \/ CanStart(name)
    /\ WriterRan =>
          \A src \in RunSources \ run.errors :
              /\ ChunksOf(src) # <<>>
              /\ \A i \in 1..Len(ChunksOf(src)) :
                    \E j \in 1..Len(store) :
                        /\ store[j].id = ChunksOf(src)[i].id
                        /\ store[j].embedding = ChunksOf(src)[i].embedding

C3_OneSourceFailed ==
    /\ WriterRan
    /\ run.errors = {"u1"}
    /\ run.out["writer"].documents_written >= 2

(* ---------------------------------------------------------------------- C4 *)
\* the stages of the current run that raised
StageFailures == run.errors \ Sources

C4_RaisedOnce ==
    /\ StageFailures # {} =>
          /\ run.status = "raised"
          /\ StageFailures = {run.failed}
          /\ run.failed \notin Ran
    /\ \A i, j \in 1..Len(run.ran) : run.ran[i] = run.ran[j] => i = j

C4_RaiseLeavesTheCall ==
    (run.status = "running" /\ run'.status = "raised") =>
        /\ op' = "idle"
        /\ pc' = "idle"
        /\ error' = "ComponentError"
        /\ run'.ran = run.ran
        /\ store' = store
        /\ defined' = defined
        /\ response' = response
        /\ result' = result
        /\ outputs' = <<>>
        /\ docs' = <<>>

C4_NothingRunsAfter ==
    (run.status = "raised" /\ run'.status = "raised") => run' = run

LacksSource(doc) ==
    IF nb = "arbitrary"
    THEN doc.meta.url = None /\ doc.meta.file_path = None
    ELSE doc.meta.url = None

C5_RaisesKeyError ==
    (pc = "extract" /\ \E i \in 1..Len(docs) : LacksSource(docs[i])) =>
        /\ error' = "KeyError"
        /\ op' = "idle"
        /\ pc' = "idle"
        /\ outputs' = <<>>
        /\ result' = result

\* (the question-answering evaluation extracts no sources: its outputs are
\* the answers)
C5_NoFallbackValue ==
    op # "evaluate_qa" =>
        \A found \in {outputs, result} :
            \A i \in 1..Len(found) : \A j \in 1..Len(found[i]) : found[i][j] \in Sources

\* C5: whenever one of the documents retrieved for a question of the
\* evaluation lacks the source field, extract_source raises KeyError, which
\* ends the evaluation call without a result; no list of sources ever holds
\* a value that is not a document's source.
C5_KeyErrorEndsEvaluation ==
    /\ []C5_NoFallbackValue
    /\ [][C5_RaisesKeyError]_vars

C5_KeyErrorRaised ==
    /\ error = "KeyError"
    /\ op = "idle"
    /\ n_eval = 1
    /\ \E i \in 1..Len(store) : LacksSource(store[i])

(* ---------------------------------------------------------------------- C6 *)
\* the graph Pipeline.run is executing
Executing ==
    (IF pc = "run_indexing" THEN {idx} ELSE {}) \cup (IF pc = "run_rag" THEN {rag} ELSE {})

NonSource(g, name) == \E e \in Edges(g) : e.receiver = name

\* the required input ports of the stages that have a connection coming in
PortsOf(g) ==
    UNION {{<<name, s.name>> : s \in {x \in InputSockets(ClassOf(g, name)) : x.required}} :
              name \in {n \in Names(g) : NonSource(g, n)}}

ProducersOf(g, p) ==
    {e.sender : e \in {f \in Edges(g) : f.receiver = p[1] /\ f.receiver_socket = p[2]}}

\* C6 (as stated): every graph is acyclic, and when it is executed every
\* required input port of every non-source stage has exactly one connected
\* producer.
C6_OneProducerEach ==
    /\ Acyclic(idx)
    /\ Acyclic(rag)
    /\ \A g \in Executing : \A p \in PortsOf(g) : Cardinality(ProducersOf(g, p)) = 1

\* C6 (amended): every graph is acyclic, no connect call and no run is
\* refused, and when a graph is executed every required input port of every
\* non-source stage has exactly one connected producer, except the
\* joiner's documents port (both converters) and the answer builder's query
\* port (no producer: the caller passes the question to run).
C6_GraphsWellFormed ==
    /\ Acyclic(idx)
    /\ Acyclic(rag)
    /\ error \notin {"PipelineConnectError", "ValueError"}
    /\ \A g \in Executing : \A p \in PortsOf(g) :
          CASE p = <<"document_joiner", "documents">> ->
                 ProducersOf(g, p) = {"html_converter", "pdf_converter"}
            [] p = <<"answer_builder", "query">> ->
                 /\ ProducersOf(g, p) = {}
                 /\ "query" \in DOMAIN run.data["answer_builder"]
            [] OTHER -> Cardinality(ProducersOf(g, p)) = 1

\* a query pipeline is being executed after an ingestion pipeline was
C6_BothExecuted ==
    /\ pc = "run_rag"
    /\ Len(rag.connections) = 6
    /\ Len(idx.connections) \in {5, 7}
    /\ store # <<>>

(* ---------------------------------------------------------------------- C7 *)
AnswerBuilt == pc = "run_rag" /\ "answer_builder" \in Ran

\* C7: when the answer builder of a query run has run, the documents of the
\* answer are the list the retriever returned in this run, in its order, and
\* the prompt the generator was sent holds the contents of that same list,
\* in the same order.
C7_AnswerCarriesRetrieved ==
    AnswerBuilt =>
        LET retrieved == run.out["retriever"].documents
            answer == run.out["answer_builder"].answers[1]
        IN /\ answer.documents = retrieved
           /\ run.out["llm"].prompt = run.out["prompt_builder"].prompt
           /\ run.out["llm"].prompt.documents
                 = [i \in 1..Len(retrieved) |-> retrieved[i].content]
           /\ answer.query = Question

C7_AnswerWithDocuments ==
    /\ AnswerBuilt
    /\ Len(run.out["answer_builder"].answers[1].documents) >= 3
    /\ run.out["answer_builder"].answers[1].data = "22.11"

(* ---------------------------------------------------------------------- C8 *)
Retrieved == pc = "run_rag" /\ "retriever" \in Ran

Querying == pc \in {"start_rag", "run_rag", "extract"}

C9_StoreFrame ==
    /\ Querying => store' = store
    /\ (store' # store /\ ~NewStoreObject) =>
          /\ pc = "run_indexing"
          /\ "writer" \notin Ran
          /\ run'.ran = Append(run.ran, "writer")
          /\ SubSeq(store', 1, Len(store)) = store

\* C9: no step of a query run or of an evaluation batch changes the store;
\* the store of a session changes only in the writer step of an ingestion
\* run, and that step leaves every stored document in place and as it was.
C9_ReadOnlyWhenQuerying == [][C9_StoreFrame]_vars

C9_EvaluatedOverStore ==
    /\ result # <<>>
    /\ Len(store) >= 3
    /\ n_ingest = 2

(* --------------------------------------------------------------------- C10 *)
\* a chunk without its first split_overlap words
WithoutOverlap(chunk) == SubSeq(chunk.content, split_overlap + 1, Len(chunk.content))

\* the last split_overlap words of a chunk
Tail16(chunk) ==
    SubSeq(chunk.content, Len(chunk.content) - split_overlap + 1, Len(chunk.content))

Reconstructed(chunks) ==
    IF chunks = <<>> THEN <<>>
    ELSE chunks[1].content
         \o Concat([i \in 1..(Len(chunks) - 1) |-> WithoutOverlap(chunks[i + 1])])

\* C10: once the splitter has split a cleaned document, every chunk but the
\* first begins with the last split_overlap words of its predecessor, and
\* the first chunk followed by the other chunks without those words is the
\* cleaned text, word for word.
C10_ChunksReconstructText ==
    pc = "split_done" =>
        /\ \A i \in 1..(Len(docs) - 1) :
              /\ Len(docs[i].content) >= split_overlap
              /\ Len(docs[i + 1].content) > split_overlap
              /\ SubSeq(docs[i + 1].content, 1, split_overlap) = Tail16(docs[i])
        /\ Reconstructed(docs) = arg.question

\* a text with blank units was cut into several chunks, the last one short
C10_ManyChunks ==
    /\ pc = "split_done"
    /\ Len(docs) >= 4
    /\ Len(docs[Len(docs)].content) < arg.split_length
    /\ Len(arg.question) < Len(content[urls[1]])

(* --------------------------------------------------------------------- C11 *)
Words(chunk) == {chunk.content[i] : i \in 1..Len(chunk.content)}

\* every word of the source text is its own position, so that a word two
\* chunks share is a position both cover
PlainText == \A i \in 1..Len(content[urls[1]]) : content[urls[1]][i] = i

\* C11: once the splitter has split a cleaned document, every chunk has at
\* least one and at most split_length words, and two consecutive chunks
\* share at most split_overlap positions of the text.
C11_ChunksWithinBounds ==
    pc = "split_done" =>
        /\ \A i \in 1..Len(docs) :
              /\ Len(docs[i].content) >= 1
              /\ Len(docs[i].content) <= arg.split_length
        /\ PlainText =>
              \A i \in 1..(Len(docs) - 1) :
                  Cardinality(Words(docs[i]) \cap Words(docs[i + 1])) <= split_overlap

\* a text cut into full chunks that overlap in exactly split_overlap words
C11_FullChunks ==
    /\ pc = "split_done"
    /\ PlainText
    /\ Len(docs) >= 3
    /\ Len(docs[1].content) = arg.split_length
    /\ Len(docs[2].content) = arg.split_length
    /\ Cardinality(Words(docs[1]) \cap Words(docs[2])) = split_overlap

(* --------------------------------------------------------------------- C12 *)
SplitterRan == pc = "run_indexing" /\ "splitter" \in Ran

\* the finished runs whose splitter had the input and the split length of
\* the current run
SameSplitterInput ==
    {h \in ingested : /\ h.split_length = arg.split_length
                      /\ h.cleaned = run.out["cleaner"].documents}

Tables == {runs[i].table : i \in 1..Len(runs)}

\* the rows of the tables logged so far
LoggedRows == UNION {SetOf(t) : t \in Tables}

\* the ranks of the first k entries of a list
FirstRanks(list, k) == {j \in 1..Len(list) : j <= k}

\* C13: in every row of a results table and for every k of its metric
\* columns, precision@k is the number of the first k retrieved entries that
\* are expected sources over the number of those entries, recall@k is the
\* number of expected sources found among those entries over the number of
\* expected sources, and nDCG@k is that of the first k entries and the
\* expected sources; the top-K evaluation scores the retrieved lists and the
\* expected sources of the table it is given, for k = 1, 2, 3.
C13_MetricsOfFirstK ==
    /\ \A r \in LoggedRows : \A c \in DOMAIN r.scores :
          LET k == c[2]
              entries == FirstRanks(r.outputs, k)
              hits == {j \in entries : r.outputs[j] \in r.source}
              found == {x \in r.source : \E j \in entries : r.outputs[j] = x}
          IN /\ (c[1] = "precision_at_k" /\ entries # {})
                    => r.scores[c] = <<Cardinality(hits), Cardinality(entries)>>
             /\ (c[1] = "recall_at_k" /\ r.source # {})
                    => r.scores[c] = <<Cardinality(found), Cardinality(r.source)>>
             /\ c[1] = "ndcg_at_k"
                    => r.scores[c] = ndcg_at_k(k, SubSeq(r.outputs, 1, Cardinality(entries)),
                                               r.source)
    /\ evaluate_results # <<>> =>
          /\ Len(evaluate_results) = Len(eval_results_of_retriever_df_bge_small_en)
          /\ \A i \in 1..Len(evaluate_results) :
                /\ evaluate_results[i].outputs
                       = eval_results_of_retriever_df_bge_small_en[i].outputs
                /\ evaluate_results[i].source
                       = eval_results_of_retriever_df_bge_small_en[i].source
                /\ \A k \in Ks : \A metric \in {"precision_at_k", "recall_at_k", "ndcg_at_k"} :
                      Column(metric, k) \in DOMAIN evaluate_results[i].scores

\* a row of the top-K evaluation with a repeated source among the first
\* three entries and a fourth entry that no metric counts
C13_RankedRow ==
    \E i \in 1..Len(evaluate_results) :
        LET r == evaluate_results[i]
        IN /\ r.outputs = <<"u1", "p1", "p1", "u2">>
           /\ r.source = {"p1", "u2"}
           /\ r.scores[Column("precision_at_k", 1)] = <<0, 1>>
           /\ r.scores[Column("precision_at_k", 3)] = <<2, 3>>
           /\ r.scores[Column("recall_at_k", 3)] = <<1, 2>>

(* ---- C14 *)
InUnitInterval(score) == score[2] > 0 /\ 0 <= score[1] /\ score[1] <= score[2]

\* C14: every score of every row of a results table, for every k, is a
\* fraction between 0 and 1, whatever list of sources was retrieved (none,
\* or the same source more than once) and whatever sources were expected.
C14_ScoresInUnitInterval ==
    \A r \in LoggedRows \cup SetOf(evaluate_results) : \A c \in DOMAIN r.scores :
        InUnitInterval(r.scores[c])

\* the top-K evaluation has scored a row with nothing retrieved and a row
\* with a source repeated
C14_EmptyAndRepeated ==
    /\ \E i \in 1..Len(evaluate_results) : evaluate_results[i].outputs = <<>>
    /\ \E i \in 1..Len(evaluate_results) :
          /\ evaluate_results[i].outputs = <<"p1", "p1", "p1", "u1">>
          /\ evaluate_results[i].source = {"p1"}
          /\ evaluate_results[i].scores[Column("recall_at_k", 3)] = <<1, 1>>
          /\ evaluate_results[i].scores[Column("ndcg_at_k", 3)][1] > 0

(* ---- C15 *)
\* C15: the results table of the top-K evaluation has one row per question
\* of the table evaluated, in its order, and nine metric columns: the three
\* metrics at each of the three k.
C15_TableShape ==
    evaluate_results # <<>> =>
        /\ Len(evaluate_results) = Len(eval_results_of_retriever_df_bge_small_en)
        /\ \A i \in 1..Len(evaluate_results) :
              /\ evaluate_results[i].question
                     = eval_results_of_retriever_df_bge_small_en[i].question
              /\ DOMAIN evaluate_results[i].scores
                     = {"precision_at_k", "recall_at_k", "ndcg_at_k"} \X {1, 2, 3}
              /\ Cardinality(DOMAIN evaluate_results[i].scores) = 3 * Cardinality(Ks)

C15_TwoRowsScored ==
    /\ Len(evaluate_results) = 2
    /\ evaluate_results[1].question # evaluate_results[2].question
    /\ Cardinality(DOMAIN evaluate_results[1].scores) = 9

(* ---- C16 *)
Logged(i) == runs[i].status # "RUNNING"

\* the run whose results table this step logs, if it logs one
LogsTable(i) ==
    /\ i \in 1..Len(runs')
    /\ runs'[i].table # <<>>
    /\ i \in 1..Len(runs) => runs[i].table = <<>>

\* C16: the tracking server only gains runs; a run that has ended keeps its
\* status and its results table through every later step (evaluations,
\* queries, ingestion); a results table is logged to a run that this very
\* evaluation started: a run that is new in the step, or the active run,
\* which is the last one started and holds no table yet.  Each run has its
\* own id and at most the last run is active.
C16_LoggedRunsStay ==
    /\ [](/\ \A i \in 1..Len(runs) : runs[i].run_id = i
          /\ \A i \in 1..(Len(runs) - 1) : Logged(i)
          /\ \A i \in 1..Len(runs) : runs[i].table # <<>> => runs[i].status = "FINISHED")
    /\ [][/\ Len(runs') >= Len(runs)
          /\ \A i \in 1..Len(runs) : Logged(i) => runs'[i] = runs[i]
          /\ \A i \in 1..Len(runs') :
                LogsTable(i) => /\ i = Len(runs')
                                /\ i > Len(runs) \/ (ActiveRun /\ i = Len(runs))]_vars

\* two evaluations are logged and the store is being ingested into again
C16_IngestingAfterLogging ==
    /\ Len(runs) = 2
    /\ runs[1].evaluation = "retriever" /\ runs[1].status = "FINISHED" /\ runs[1].table # <<>>
    /\ runs[2].evaluation = "top_k" /\ runs[2].table # runs[1].table
    /\ op = "create_vector_database"
    /\ pc = "run_indexing"
    /\ "writer" \in Ran

(* ---- C18 *)
\* the step in which qa returns its output for the row
QaReturns == op = "evaluate_qa" /\ op' = "evaluate_qa" /\ outputs' # outputs

\* the step in which the question-answering evaluation logs its table
QaLogs == op = "evaluate_qa" /\ pc = "judge" /\ op' = "idle"

QaCalls ==
    op = "evaluate_qa" =>
        /\ pc \in {"start_rag", "run_rag", "judge"}
        /\ row \in 1..Len(eval_df)
        /\ pc \in {"start_rag", "run_rag"} => Len(outputs) = row - 1
        /\ pc = "judge" => Len(outputs) = Len(eval_df)
        /\ pc = "run_rag" =>
              /\ run.data["text_embedder"].text = eval_df[row].questions
              /\ run.data["prompt_builder"].question = eval_df[row].questions
              /\ run.data["answer_builder"].query = eval_df[row].questions

QaOutputs ==
    /\ QaReturns =>
          /\ Len(outputs') = row
          /\ SubSeq(outputs', 1, Len(outputs)) = outputs
          /\ outputs'[row].result = run.out["llm"].replies[1]
          /\ outputs'[row].source_documents =
                 [j \in 1..Len(run.out["retriever"].documents) |->
                     run.out["retriever"].documents[j].content]
          /\ outputs'[row].latency = Cardinality(Ran)
          /\ Ran = Names(rag)
    /\ QaLogs =>
          LET table == runs'[Len(runs')].table
          IN /\ runs'[Len(runs')].evaluation = "question-answering"
             /\ Len(table) = Len(eval_df)
             /\ \A i \in 1..Len(table) :
                   /\ table[i].questions = eval_df[i].questions
                   /\ table[i].result = outputs[i].result
                   /\ table[i].source_documents = outputs[i].source_documents
                   /\ table[i].latency = outputs[i].latency
                   /\ Len(table[i].relevance) <= 1
                   /\ \A j \in 1..Len(table[i].relevance) : table[i].relevance[j] \in 1..5

StartsQueryRun == pc = "start_rag" /\ pc' = "run_rag"
EndsQueryRun == pc = "run_rag" /\ pc' # "run_rag"

C17_NothingRetained ==
    /\ pc \notin {"run_indexing", "run_rag"} => run.data = <<>> /\ run.out = <<>>
    /\ pc = "run_rag" =>
          /\ run.data = [text_embedder |-> [text |-> Question],
                         prompt_builder |-> [question |-> Question],
                         answer_builder |-> [query |-> Question]]
          /\ "retriever" \in Ran =>
                \A i \in 1..Len(run.out["retriever"].documents) :
                    \E j \in 1..Len(store) :
                        /\ store[j].id = run.out["retriever"].documents[i].id
                        /\ store[j].content = run.out["retriever"].documents[i].content
          /\ "prompt_builder" \in Ran =>
                /\ run.out["prompt_builder"].prompt.query = Question
                /\ run.out["prompt_builder"].prompt.documents =
                       [i \in 1..Len(run.out["retriever"].documents) |->
                           run.out["retriever"].documents[i].content]
          /\ "answer_builder" \in Ran =>
                /\ run.out["answer_builder"].answers[1].query = Question
                /\ run.out["answer_builder"].answers[1].documents =
                       run.out["retriever"].documents

C17_QueryFrame ==
    /\ StartsQueryRun => run'.ran = <<>> /\ run'.out = <<>> /\ run'.errors = {}
    /\ EndsQueryRun => run'.data = <<>> /\ run'.out = <<>>
    /\ (Querying \/ StartsQueryRun \/ EndsQueryRun) => store' = store /\ rag' = rag

\* C17: when no pipeline run is in progress the pipeline holds no inputs and
\* no outputs of a run; a query run starts with its own question as its only
\* input and no outputs, and what its stages compute comes from that
\* question and the store: the documents retrieved are documents of the
\* store, the prompt and the answer carry this run's question and this
\* run's retrieved documents; no step of a query run changes the store or
\* the pipeline.
C17_QueryContextEphemeral == []C17_NothingRetained /\ [][C17_QueryFrame]_vars

\* the second question of the question-answering evaluation is being
\* answered after the run of the first has returned
C17_LaterQueryRun ==
    /\ op = "evaluate_qa"
    /\ row = 2
    /\ pc = "run_rag"
    /\ "answer_builder" \in Ran
    /\ Len(outputs) = 1
    /\ seen[eval_df[1].questions].known
    /\ eval_df[1].questions # Question

(* ---- C19 *)
\* the positions of the store whose document is in the list returned
Returned == {j \in 1..Len(store) : \E i \in 1..Len(docs) : docs[i].id = store[j].id}

\* C19: the retriever returns min(top_k, s) documents of a store of s: each
\* is a stored document, with its score, none is returned twice, their
\* similarity to the query embedding does not increase along the list, and
\* no stored document that is left out is more similar to the query
\* embedding than one that is returned.
C19_TopKNearest ==
    pc = "retrieved" =>
        /\ Len(docs) = (IF Len(store) < top_k THEN Len(store) ELSE top_k)
        /\ \A i \in 1..Len(docs) :
              \E j \in 1..Len(store) :
                  docs[i] = [store[j] EXCEPT !.score = <<Similarity(outputs, store[j].embedding)>>]
        /\ \A i, j \in 1..Len(docs) : docs[i].id = docs[j].id => i = j
        /\ \A i \in 1..(Len(docs) - 1) :
              Similarity(outputs, docs[i].embedding) >= Similarity(outputs, docs[i + 1].embedding)
        /\ \A j \in (1..Len(store)) \ Returned : \A i \in 1..Len(docs) :
              Similarity(outputs, store[j].embedding) <= Similarity(outputs, docs[i].embedding)

\* a store of more than top_k documents: some are left out, one of them as
\* near as the last returned, and the list is not in stored order
C19_SomeLeftOut ==
    /\ pc = "retrieved"
    /\ Len(store) = MaxStored
    /\ Len(docs) = top_k
    /\ docs[1].id # store[1].id
    /\ Similarity(outputs, docs[1].embedding) > Similarity(outputs, docs[top_k].embedding)
    /\ \E j \in (1..Len(store)) \ Returned :
          Similarity(outputs, store[j].embedding) = Similarity(outputs, docs[top_k].embedding)

(* ---- C20 *)
\* the graph the run record belongs to
GraphOfRun == IF run.pipe = "indexing" THEN idx ELSE rag

\* the rank at which a stage ran in the current run
RankOf(name) == CHOOSE i \in 1..Len(run.ran) : run.ran[i] = name

Before(a, b) == a \in Ran /\ b \in Ran /\ RankOf(a) < RankOf(b)

C20_DataFlowOrder ==
    run.pipe # None =>
        /\ \A i, j \in 1..Len(run.ran) : run.ran[i] = run.ran[j] => i = j
        /\ \A i \in 1..Len(run.ran) : \A e \in Edges(GraphOfRun) :
              e.receiver = run.ran[i] => \E j \in 1..(i - 1) : run.ran[j] = e.sender
        /\ "answer_builder" \in Ran =>
              Before("llm", "answer_builder") /\ Before("retriever", "answer_builder")

C20_OneStageAtATime ==
    /\ (run'.pipe # None /\ run'.ran # <<>>) =>
          \/ run'.ran = run.ran
          \/ /\ run.status = "running"
             /\ \E name \in Names(GraphOfRun) \ Ran : run'.ran = Append(run.ran, name)
    /\ EndsQueryRun /\ error' = None =>
          Cardinality({i \in 1..Len(run.ran) : run.ran[i] = "llm"}) = 1

\* C20: in every pipeline run the stages execute one per step; a stage
\* executes after every stage connected to one of its inputs has, and not a
\* second time; a query run that returns has called the generator once, and
\* the answer builder runs after the generator and the retriever.
C20_SingleThreadedDataFlow == []C20_DataFlowOrder /\ [][C20_OneStageAtATime]_vars

\* a query run has executed every stage, the retriever before the prompt
\* builder and the text embedder first
C20_QueryRunComplete ==
    /\ pc = "run_rag"
    /\ Ran = Names(rag)
    /\ Len(run.ran) = 5
    /\ run.ran[1] = "text_embedder"
    /\ Before("retriever", "prompt_builder")
    /\ run.ran[5] = "answer_builder"

(* ---- C21 *)
\* retriever_model_function is at work on the rows of eval_data
RetrievalBatch ==
    /\ op \in {"evaluate_embedding", "evaluate_split_length"}
    /\ pc \in {"start_rag", "run_rag", "extract"}

\* the source a retrieved document names
NamedSource(doc) == IF doc.meta.url # None THEN doc.meta.url ELSE doc.meta.file_path

\* one source per document retrieved, in retrieval order
NamedSources(documents) == [j \in 1..Len(documents) |-> NamedSource(documents[j])]

\* what the finished run for row i retrieved
RetrievedForRow(i) == seen[eval_data[i].question].documents

C21_RowsInOrder ==
    RetrievalBatch =>
        /\ row \in 1..Len(eval_data)
        /\ Len(outputs) = row - 1
        /\ \A i \in 1..Len(outputs) : outputs[i] = NamedSources(RetrievedForRow(i))
        /\ pc = "start_rag" => run.status # "running"
        /\ pc = "run_rag" => run.data["text_embedder"].text = eval_data[row].question
        /\ pc = "extract" => run.status # "running" /\ docs = RetrievedForRow(row)

C21_BatchReturns ==
    (RetrievalBatch /\ op' = "idle" /\ error' = None) =>
        /\ row = Len(eval_data)
        /\ Len(result') = Len(eval_data)
        /\ \A i \in 1..Len(eval_data) : result'[i] = NamedSources(RetrievedForRow(i))

C21_RowAfterRow ==
    (RetrievalBatch /\ row' # row /\ op' = op) => pc = "extract" /\ row' = row + 1

\* C21: in a retrieval evaluation the query pipeline runs for one row of
\* eval_data at a time, in table order: a run starts when none is in
\* progress, asks the question of the current row, and the row advances by
\* one after its sources are extracted; entry i of the series returned is
\* the list of the sources named by the documents retrieved for question i,
\* one per document, in retrieval order, a source named twice kept twice.
C21_SequentialBatch ==
    []C21_RowsInOrder /\ [][C21_BatchReturns /\ C21_RowAfterRow]_vars

\* an evaluation has returned a series whose first entry names a source
\* twice and differs from the second entry
C21_SeriesReturned ==
    /\ Len(result) = Len(eval_data)
    /\ Len(result[1]) >= 3
    /\ \E j \in 1..(Len(result[1]) - 1) : result[1][j] = result[1][j + 1]
    /\ result[1] # result[2]

(* ---- C22 *)
RunInProgress == run.status = "running"

C22_CallOutstanding ==
    run.calling # None =>
        /\ RunInProgress
        /\ run.calling \in ExternalCalls
        /\ run.calling \notin Ran

C22_CallBlocks ==
    run.calling # None =>
        \/ run' = run /\ pc' = pc /\ op' = op
        \/ /\ run'.ran = Append(run.ran, run.calling)
           /\ run'.calling = None
           /\ pc' = pc
        \/ /\ run'.status = "raised"
           /\ run'.failed = run.calling
           /\ run'.ran = run.ran

\* C22: while the call a component has issued is outstanding, the only step
\* of the run is that call's return or its raising: no other component runs
\* and the run neither returns nor gives the call up; and when every call
\* that is issued returns, every pipeline run comes to its end.
C22_BlocksUntilCallReturns ==
    /\ []C22_CallOutstanding
    /\ [][C22_CallBlocks]_vars
    /\ (RunInProgress ~> ~RunInProgress)

\* the fetcher's request is outstanding, and the PDF converter, which waits
\* for no other component, has not run
C22_FetchOutstanding ==
    /\ pc = "run_indexing"
    /\ run.calling = "fetcher"
    /\ "pdf_converter" \in Names(idx)
    /\ "pdf_converter" \notin Ran
    /\ n_ingest = 2

(* ---- C23 *)
QueryRunning == pc = "run_rag" /\ run.status = "running"

C23_PromptOfTemplate ==
    (QueryRunning /\ "prompt_builder" \in Ran) =>
        LET prompt == run.out["prompt_builder"].prompt
            retrieved == run.out["retriever"].documents
        IN /\ prompt.instruction = "reply with 'no_answer'"
           /\ prompt.query = Question
           /\ prompt.query = run.data["prompt_builder"].question
           /\ Len(prompt.documents) = Len(retrieved)
           /\ \A i \in 1..Len(retrieved) :
                  prompt.documents[i] = retrieved[i].content

C23_PromptReachesModel ==
    (QueryRunning /\ "llm" \in Ran) =>
        run.out["llm"].prompt = run.out["prompt_builder"].prompt

C23_ReplyTakenAsIs ==
    (QueryRunning /\ "answer_builder" \in Ran) =>
        /\ run.out["llm"].replies[1] \in Replies
        /\ run.out["answer_builder"].answers[1].data = run.out["llm"].replies[1]

\* C23: the prompt of every query run is the template filled with the
\* run's question and the content of each retrieved document, once each and
\* in retrieval order; the 'no_answer' instruction is in it whatever was
\* retrieved, nothing included; the model receives that prompt, and
\* whatever it replies becomes the answer unchecked.
C23_PromptContract ==
    C23_PromptOfTemplate /\ C23_PromptReachesModel /\ C23_ReplyTakenAsIs

\* nothing was retrieved, the prompt carried the instruction, and the
\* model's reply other than 'no_answer' became the answer
C23_AnsweredWithoutDocuments ==
    /\ QueryRunning
    /\ "answer_builder" \in Ran
    /\ run.out["retriever"].documents = <<>>
    /\ run.out["prompt_builder"].prompt.documents = <<>>
    /\ run.out["answer_builder"].answers[1].data = "22.11"

(* ---- C24 *)
Joined == pc = "run_indexing" /\ "document_joiner" \in Ran

TimesRun(name) == Cardinality({i \in 1..Len(run.ran) : run.ran[i] = name})

Elements(list) == {list[i] : i \in 1..Len(list)}

Converted ==
    Elements(run.out["html_converter"].documents)
    \cup Elements(run.out["pdf_converter"].documents)

C24_AfterBothConverters ==
    Joined =>
        /\ TimesRun("document_joiner") = 1
        /\ Before("html_converter", "document_joiner")
        /\ Before("pdf_converter", "document_joiner")

C24_EveryDocumentJoined ==
    Joined =>
        /\ Converted \subseteq Elements(run.out["document_joiner"].documents)
        /\ Len(run.out["document_joiner"].documents)
              = Len(run.out["html_converter"].documents)
                + Len(run.out["pdf_converter"].documents)

C24_StoreCoversBoth ==
    (Joined /\ "writer" \in Ran) =>
        \A doc \in Converted :
            \E i \in 1..Len(store) :
                /\ store[i].meta.url = doc.meta.url
                /\ store[i].meta.file_path = doc.meta.file_path

\* C24: in the ingestion run of rag_arbitrary_sources document_joiner runs
\* once, after html_converter and after pdf_converter; its output holds
\* every document of either converter and no other; and once the writer has
\* run the store holds a chunk of every web page fetched and of the PDF
\* file read.
C24_JoinerFansIn ==
    C24_AfterBothConverters /\ C24_EveryDocumentJoined /\ C24_StoreCoversBoth

\* both web pages and the PDF file were converted, joined and written
C24_PagesAndPdfWritten ==
    /\ Joined
    /\ "writer" \in Ran
    /\ Len(run.out["html_converter"].documents) = 2
    /\ Len(run.out["pdf_converter"].documents) = 1
    /\ \E i, j \in 1..Len(store) :
          store[i].meta.url = "u1" /\ store[j].meta.file_path = "p1"

(* ---- C25 *)
HasUrl(doc) == doc.meta.url # None

HasFilePath(doc) == doc.meta.file_path # None

C25_UrlFirst ==
    /\ Len(outputs) = step
    /\ \A i \in 1..step :
          /\ HasUrl(docs[i]) => outputs[i] = docs[i].meta.url
          /\ (~HasUrl(docs[i]) /\ HasFilePath(docs[i])) =>
                outputs[i] = docs[i].meta.file_path
          /\ HasUrl(docs[i]) \/ HasFilePath(docs[i])

C25_KeyErrorWhenNeither ==
    /\ error \in {None, "KeyError"}
    /\ error = "KeyError" <=> pc = "raised"
    /\ pc = "raised" =>
          (step < Len(docs) /\ ~HasUrl(docs[step + 1]) /\ ~HasFilePath(docs[step + 1]))
    /\ pc = "returned" => step = Len(docs)

C25_NeitherRaises ==
    (pc = "extract_source" /\ step < Len(docs)
     /\ ~HasUrl(docs[step + 1]) /\ ~HasFilePath(docs[step + 1]))
        => pc' = "raised" /\ error' = "KeyError" /\ outputs' = outputs

\* C25: extract_source returns the url of every document whose metadata
\* holds one, whether or not it holds a file_path as well; the file_path of
\* a document that holds a file_path and no url; and raises KeyError for a
\* document that holds neither, and for no other.
C25_SourcePriority ==
    [](C25_UrlFirst /\ C25_KeyErrorWhenNeither) /\ [][C25_NeitherRaises]_vars

\* the url was returned for a document holding both, the file_path for one
\* holding only that, and the third document, holding neither, raised
C25_AllThreeCases ==
    /\ pc = "raised"
    /\ step = 2
    /\ HasUrl(docs[1]) /\ HasFilePath(docs[1]) /\ outputs[1] = docs[1].meta.url
    /\ ~HasUrl(docs[2]) /\ HasFilePath(docs[2]) /\ outputs[2] = docs[2].meta.file_path

(* ---- C26 *)
C26_GeneratorBeforeSources ==
    (RetrievalBatch /\ pc = "run_rag" /\ pc' = "extract") =>
        /\ TimesRun("llm") = 1
        /\ Before("retriever", "llm")
        /\ docs' = run.out["retriever"].documents

GeneratorFails ==
    RetrievalBatch /\ run.status = "running" /\ run'.status = "raised" /\ run'.failed = "llm"

C26_GeneratorFailureAborts ==
    GeneratorFails =>
        /\ "retriever" \in Ran
        /\ op' = "idle"
        /\ pc' = "idle"
        /\ error' # None
        /\ outputs' = <<>>
        /\ docs' = <<>>
        /\ result' = result

C26_ListsOfEarlierRowsOnly ==
    /\ RetrievalBatch => Len(outputs) < row
    /\ Len(result) \in {0, Len(eval_data)}
    /\ (op = "idle" /\ error # None) => outputs = <<>>

\* C26: in a retrieval evaluation the sources of a row are extracted only
\* after a query run in which the generator was called once, although the
\* documents extracted from are the retriever's; when the generator fails on
\* a row, the documents already retrieved for it notwithstanding, the
\* evaluation ends with the error, leaving no list of sources for that row
\* or a later one and no result.
C26_GeneratorInRetrievalEvaluation ==
    /\ []C26_ListsOfEarlierRowsOnly
    /\ [][C26_GeneratorBeforeSources /\ C26_GeneratorFailureAborts]_vars

\* the generator failed on the first question of a retrieval evaluation,
\* which ended without a result
C26_FailedOnFirstQuestion ==
    /\ run.status = "raised"
    /\ run.failed = "llm"
    /\ op = "idle"
    /\ error # None
    /\ n_eval = 1
    /\ n_query = 0
    /\ ~seen[eval_data[1].question].known
    /\ result = <<>>
    /\ outputs = <<>>

(* ---- C27 *)
\* mlflow.evaluate is at work inside its with block
Evaluating == RetrievalBatch \/ op = "evaluate_qa"

RunningRuns == {i \in 1..Len(runs) : runs[i].status = "RUNNING"}

C27_OneActiveRun ==
    /\ Cardinality(RunningRuns) <= 1
    /\ RunningRuns \subseteq {Len(runs)}
    /\ Evaluating <=> ActiveRun
    /\ \A i \in 1..Len(runs) :
          /\ runs[i].run_id = i
          /\ runs[i].status = "FAILED" => runs[i].table = <<>>

C27_RunStarted ==
    /\ (~Evaluating /\ Evaluating') =>
          /\ Len(runs') = Len(runs) + 1
          /\ runs'[Len(runs')].status = "RUNNING"
          /\ runs'[Len(runs')].table = <<>>
    /\ Len(runs') # Len(runs) =>
          /\ Len(runs') = Len(runs) + 1
          /\ ~Evaluating
          /\ Evaluating' \/ runs'[Len(runs')].evaluation = "top_k"
          /\ \A i \in 1..Len(runs) : runs'[i] = runs[i]

C27_RunEnded ==
    (Evaluating /\ ~Evaluating') =>
        /\ Len(runs') = Len(runs)
        /\ \A i \in 1..(Len(runs) - 1) : runs'[i] = runs[i]
        /\ IF error' = None
           THEN runs'[Len(runs)].status = "FINISHED" /\ runs'[Len(runs)].table # <<>>
           ELSE /\ runs'[Len(runs)].status = "FAILED"
                /\ runs'[Len(runs)].table = <<>>
                /\ result' = result
                /\ evaluate_results' = evaluate_results

\* C27: a tracking run is started when an evaluation enters its with block,
\* one run per evaluation, and it is the only run active until the block is
\* left; leaving it ends the run, FINISHED with the results table logged
\* when the evaluation returned, FAILED with no table and no result when it
\* raised; no run is active when no evaluation is at work.
C27_OneRunPerEvaluation ==
    []C27_OneActiveRun /\ [][C27_RunStarted /\ C27_RunEnded]_vars

\* an evaluation raised and left its run FAILED; no run is active
C27_FailedRunEnded ==
    /\ op = "idle"
    /\ error # None
    /\ Len(runs) = 1
    /\ runs[1].status = "FAILED"
    /\ runs[1].table = <<>>
    /\ result = <<>>

(* ---- C28 *)
SplitLengthCall == op = "evaluate_split_length"

C28_OwnStoreAndPipelines ==
    /\ (~SplitLengthCall /\ SplitLengthCall') =>
          /\ store' = <<>>
          /\ idx' = EmptyPipeline
          /\ arg'.split_length \in {split_length_1000, split_length_2000}
    /\ (SplitLengthCall /\ pc = "run_indexing" /\ pc' = "build_rag") =>
          rag' = EmptyPipeline

C28_OwnChunksOnly ==
    SplitLengthCall =>
        \A i \in 1..Len(store) :
            /\ store[i].written_by = n_ingest + n_eval
            /\ Len(store[i].content) <= arg.split_length

C28_NotebookNamesKept ==
    /\ (SplitLengthCall \/ SplitLengthCall') =>
          document_store' = document_store /\ defined' = defined
    /\ document_store' # document_store =>
          /\ op = "create_vector_database"
          /\ arg.split_length = split_length_253
          /\ document_store' = store
          /\ "document_store" \in defined'

C28_QaOnNotebookStore ==
    op = "evaluate_qa" =>
        /\ {"document_store", "rag_pipeline"} \subseteq defined
        /\ store = document_store
        /\ \A i \in 1..Len(store) :
              /\ Len(store[i].content) <= split_length_253
              /\ store[i].written_by < n_ingest + n_eval

\* C28: every call of evaluate_split_length starts from a new, empty store
\* and builds its pipelines anew; the store it evaluates holds only chunks
\* its own ingestion wrote, none of an earlier call; no step of the call
\* changes what the notebook-level names document_store and rag_pipeline
\* are bound to, which only the cell creating the store with split_length
\* 253 sets; and the question-answering evaluation queries that store.
C28_CallLocalStores ==
    /\ [](C28_OwnChunksOnly /\ C28_QaOnNotebookStore)
    /\ [][C28_OwnStoreAndPipelines /\ C28_NotebookNamesKept]_vars

\* the question-answering evaluation retrieves from the 253 store, which
\* holds a text cut in two, after a call of evaluate_split_length that was
\* made when that store existed had returned
C28_QaAfterSplitLengthCall ==
    /\ op = "evaluate_qa"
    /\ pc = "run_rag"
    /\ "retriever" \in Ran
    /\ store = document_store
    /\ \E i \in 1..Len(store) : store[i].meta.split_id = 1
    /\ store[1].written_by + 2 <= n_ingest + n_eval
    /\ \E i \in 1..Len(runs) :
          runs[i].evaluation = "retriever" /\ runs[i].status = "FINISHED"

(* ---- C29 *)
Answers == run.out["answer_builder"].answers

C29_AnswerPerReply ==
    (QueryRunning /\ "answer_builder" \in Ran) =>
        /\ TimesRun("llm") = 1
        /\ Len(Answers) >= 1
        /\ Len(Answers) = Len(run.out["llm"].replies)
        /\ Len(run.out["llm"].meta) = Len(run.out["llm"].replies)
        /\ \A j \in 1..Len(Answers) :
              /\ Answers[j].data = run.out["llm"].replies[j]
              /\ Answers[j].meta = run.out["llm"].meta[j]
              /\ Answers[j].meta # None

QueryRunReturns == QueryRunning /\ run'.status = "idle"

C29_FirstAnswerRead ==
    QueryRunReturns =>
        /\ "answer_builder" \in Ran
        /\ Len(Answers) >= 1
        /\ op = "ask" => response' = Answers[1]
        /\ op \in {"evaluate_embedding", "evaluate_split_length"} =>
              docs' = Answers[1].documents
        /\ op = "evaluate_qa" =>
              outputs'[Len(outputs')].result = Answers[1].data

\* C29: a query run that returns has built one answer per reply of its one
\* generator call, at least one, answer j holding reply j and the j-th
\* metadata of that call; the first answer, which the example cell,
\* retrieve_doc_sources and qa read, is there in every run that returns.
C29_AnswersDefined ==
    []C29_AnswerPerReply /\ [][C29_FirstAnswerRead]_vars

\* the example question cell returned the answer 'no_answer' with the
\* generator call's metadata and the documents retrieved
C29_AnswerReturned ==
    /\ op = "idle"
    /\ error = None
    /\ n_query = 1
    /\ response.data = "no_answer"
    /\ response.meta = "usage"
    /\ response.documents # <<>>
====
